---------------------------- MODULE Spec2Model ----------------------------
(***************************************************************************)
(* Privacy pool state machine of the offuscate program: pool deposits,    *)
(* delayed withdrawals, relayed and batch claims, churn vaults and the    *)
(* commitment / nullifier ledger.                                         *)
(*                                                                         *)
(* Lamport amounts are counted in units of 100_000_000 lamports (0.1 SOL), *)
(* so ALLOWED_AMOUNTS = [100_000_000, 500_000_000, 1_000_000_000] reads    *)
(* {1, 5, 10}.  The pool's u64 aggregates are modelled at a reduced width: *)
(* U64_MAX is the largest value a counter or a balance can hold.  The slot *)
(* counter and the entropy of the withdrawal delay keep their full 64 bits *)
(* as eight little-endian bytes.                                          *)
(*                                                                         *)
(* Every instruction is one action.  A failing instruction leaves every    *)
(* account as it was (the host reverts the transaction); the error it      *)
(* returns is the value of the instruction's _err operator.                *)
(***************************************************************************)
EXTENDS Integers, Sequences, FiniteSets, TLC

\* ------------------------------------------------------------------ bounds
\* Largest value of a pool aggregate or a balance (stands for u64::MAX).
U64_MAX == 12
\* Largest number of (recipient, pending) pairs in an enumerated batch.
MaxPairs == 2
\* Largest number of successful deposits (plain and private together).
MaxDeposits == 2
\* Largest number of churn operations.
MaxChurns == 1
\* pending withdrawals followed when the delay is studied on its own
MaxRequests == 2
\* seconds the clock advances while payroll and receipts are followed
MaxSeconds == 3

\* ------------------------------------------------------- program constants
MIN_DELAY_SECONDS == 30
MAX_DELAY_SECONDS == 300
ALLOWED_AMOUNTS == {1, 5, 10}
\* Number of churn vault indices accepted by init_churn_vault.
NUM_CHURN_VAULTS == 3
\* Minimal data length of a PendingWithdraw account read by batch_claim:
\* 8 + 32 + 8 + 8 + 8 + 1 + 1.
PENDING_MIN_LEN == 66

\* ------------------------------------------------------- 64-bit arithmetic
\* A u64 is a sequence of 8 bytes, least significant first.
RECURSIVE Limbs(_, _)
Limbs(n, k) == IF k = 0 THEN <<>> ELSE <<n % 256>> \o Limbs(n \div 256, k - 1)

ToU64(n) == Limbs(n, 8)

\* carry into byte i of a + b
RECURSIVE AddCarry(_, _, _)
AddCarry(a, b, i) ==
    IF i = 1 THEN 0 ELSE (a[i - 1] + b[i - 1] + AddCarry(a, b, i - 1)) \div 256

\* u64::wrapping_add: the carry out of byte 8 is dropped
wrapping_add(a, b) == [i \in 1..8 |-> (a[i] + b[i] + AddCarry(a, b, i)) % 256]

\* column i of the schoolbook product a * b, before carries
MulColumn(a, b, i) ==
    LET RECURSIVE Sum(_)
        Sum(j) == IF j = 0 THEN 0 ELSE a[j] * b[i - j + 1] + Sum(j - 1)
    IN  Sum(i)

RECURSIVE MulCarry(_, _, _)
MulCarry(a, b, i) ==
    IF i = 1 THEN 0 ELSE (MulColumn(a, b, i - 1) + MulCarry(a, b, i - 1)) \div 256

\* u64::wrapping_mul: the product modulo 2^64
wrapping_mul(a, b) == [i \in 1..8 |-> (MulColumn(a, b, i) + MulCarry(a, b, i)) % 256]

\* a % m for a u64 a and a small modulus m
U64Mod(a, m) ==
    LET RECURSIVE Horner(_)
        Horner(i) == IF i > 8 THEN 0 ELSE (Horner(i + 1) * 256 + a[i]) % m
    IN  Horner(1)

\* 0x5851F42D4C957F2D, least significant byte first
ENTROPY_MULTIPLIER == <<45, 127, 149, 76, 45, 244, 81, 88>>

\* A Pubkey is modelled by its first and its last byte, the two bytes the
\* program reads.
Pubkey(b0, b31) == <<b0, b31>>
first_byte(key) == key[1]
last_byte(key) == key[2]

\* let entropy = clock.slot.wrapping_add(bytes[0]).wrapping_add(bytes[31])
\*                         .wrapping_mul(0x5851F42D4C957F2D)
entropy(slot, key) ==
    wrapping_mul(
        wrapping_add(wrapping_add(slot, ToU64(first_byte(key))),
                     ToU64(last_byte(key))),
        ENTROPY_MULTIPLIER)

delay_range == MAX_DELAY_SECONDS - MIN_DELAY_SECONDS

\* variable_delay that reduces the entropy modulo MAX_DELAY_SECONDS.
variable_delay_unreduced(slot, key) == MIN_DELAY_SECONDS + U64Mod(entropy(slot, key), MAX_DELAY_SECONDS)

variable_delay(slot, key) == MIN_DELAY_SECONDS + U64Mod(entropy(slot, key), delay_range)


\* ------------------------------------------------------------ input domains
\* Recipient keys: key i has first byte i and last byte (37 * i) % 256.
KeyOf(i) == Pubkey(i, (37 * i) % 256)
Keys == {KeyOf(1), KeyOf(2)}

\* Amounts offered to the instructions: zero, the three allowed amounts and a
\* positive amount that is not allowed.
AmountInputs == {0, 2} \cup ALLOWED_AMOUNTS

\* Lamports held by the depositor who signs a deposit.
DepositorFunds == {2, U64_MAX}

\* 32-byte values of the commitment scheme.
SecretHashes == {"sh1", "sh2"}
Nullifiers == {"n1", "n2"}

\* The bytes of the 32-byte values: the two secret hashes differ in their last
\* byte only, the two nullifiers in their first byte only.
Bytes32Table ==
    [sh1 |-> [i \in 1..32 |-> 17],
     sh2 |-> [i \in 1..32 |-> IF i = 32 THEN 18 ELSE 17],
     n1 |-> [i \in 1..32 |-> 17],
     n2 |-> [i \in 1..32 |-> IF i = 1 THEN 16 ELSE 17]]

bytes32(name) == Bytes32Table[name]

\* Lamports in one unit of amount.
LAMPORTS_PER_UNIT == 100000000

\* amount.to_le_bytes()
to_le_bytes(amount) == ToU64(amount * LAMPORTS_PER_UNIT)

\* A preimage of secret_hash and nullifier only.
preimage_amount_omitted(secret_hash, nullifier, amount) ==
    bytes32(secret_hash) \o bytes32(nullifier)

\* preimage.extend_from_slice(secret_hash); (nullifier); (amount.to_le_bytes())
preimage(secret_hash, nullifier, amount) ==
    bytes32(secret_hash) \o bytes32(nullifier) \o to_le_bytes(amount)

\* The arguments the commitment is computed from.
Triples == SecretHashes \X Nullifiers \X (0..U64_MAX)

\* solana_program::hash::hash, taken as injective on byte strings: the digest
\* of a byte string is named by the first triple the byte string is the
\* preimage of, so that two triples with one preimage have one digest.
DigestTable ==
    [bytes \in {preimage(t[1], t[2], t[3]) : t \in Triples} |->
        CHOOSE t \in Triples : preimage(t[1], t[2], t[3]) = bytes]

hash(bytes) ==
    IF bytes \in DOMAIN DigestTable THEN <<"sha256", DigestTable[bytes]>>
    ELSE <<"sha256", bytes>>

\* hash(&preimage).to_bytes(), computed once for every triple.
CommitmentTable ==
    [sh \in SecretHashes |-> [n \in Nullifiers |-> [a \in 0..U64_MAX |->
        hash(preimage(sh, n, a))]]]

compute_commitment(secret_hash, nullifier, amount) ==
    CommitmentTable[secret_hash][nullifier][amount]

\* Commitments a depositor may submit: the hashes of the modelled preimages
\* and a 32-byte value that is the hash of none of them.
CommitmentInputs ==
    {compute_commitment(sh, n, a) : sh \in SecretHashes, n \in Nullifiers, a \in ALLOWED_AMOUNTS}
        \cup {<<"raw", <<>>>>}

\* First instruction of the transaction, as load_instruction_at_checked(0)
\* returns it: its program id and, for the ed25519 program, the signer it
\* verified a signature of.
ED25519_PROGRAM == "Ed25519SigVerify111111111111111111111111111"
OTHER_PROGRAM == "offuscate"
Ix0Inputs ==
    {[program_id |-> ED25519_PROGRAM, signer |-> k] : k \in Keys}
        \cup {[program_id |-> OTHER_PROGRAM, signer |-> <<>>]}

\* No first instruction recorded (the instruction does not read it).
NoIx0 == [program_id |-> OTHER_PROGRAM, signer |-> <<>>]

\* -------------------------------------------------------------------- state
VARIABLES
    pool,          \* PrivacyPool account; exists is FALSE before init_privacy_pool
    pool_vault,    \* lamports of the pool vault PDA
    churn_state,   \* vault index -> ChurnVaultState, for the initialised ones
    churn_vault,   \* vault index -> lamports of the churn vault PDA
    pending,       \* recipient key -> PendingWithdraw, for the existing PDAs
    commitments,   \* commitment -> CommitmentPDA, for the existing PDAs
    nullifiers,    \* nullifier -> NullifierPDA, for the existing PDAs
    clock,         \* Clock sysvar: slot (u64) and unix_timestamp
    last,          \* history: the last successful instruction and its transfers
    tally,         \* history: <<"pending", key>>, <<"nullifier", n>> or
                   \*   <<"commitment", c>> -> number of successful claims of
                   \*   the pending withdrawal, withdrawals with the nullifier,
                   \*   deposits of the commitment
    funded,        \* history: commitment -> lamports its deposits moved in
    batch,         \* PayrollBatch account of the first batch
    employee,      \* Employee account of the batch's first employee
    batch_vault,   \* lamports of the batch vault PDA
    receipts       \* receipt_index -> PaymentReceipt, for the existing PDAs

accounts == <<pool, pool_vault, churn_state, churn_vault, pending, commitments,
              nullifiers>>
history == <<last, tally, funded>>
payroll == <<batch, employee, batch_vault, receipts>>
vars == <<pool, pool_vault, churn_state, churn_vault, pending, commitments,
          nullifiers, clock, last, tally, funded, batch, employee,
          batch_vault, receipts>>

\* The PrivacyPool PDA before init_privacy_pool creates it.
NoPool == [exists |-> FALSE, total_deposited |-> 0, total_withdrawn |-> 0,
           deposit_count |-> 0, withdraw_count |-> 0, churn_count |-> 0]
EmptyMap == [x \in {} |-> 0]

\* The PayrollBatch and Employee PDAs before create_batch and add_employee
\* create them.
NoBatch == [exists |-> FALSE, owner |-> <<>>, total_budget |-> 0, total_paid |-> 0]
NoEmployee == [exists |-> FALSE, batch |-> <<>>, wallet |-> <<>>, salary_rate |-> 0,
               last_claimed_at |-> 0, total_claimed |-> 0, status |-> "Active"]
NoPayroll ==
    /\ batch = NoBatch
    /\ employee = NoEmployee
    /\ batch_vault = 0
    /\ receipts = EmptyMap

VaultIndices == 0..(NUM_CHURN_VAULTS - 1)

Init ==
    /\ pool = NoPool
    /\ pool_vault = 0
    /\ churn_state = EmptyMap
    /\ churn_vault = [i \in VaultIndices |-> 0]
    /\ pending = EmptyMap
    /\ commitments = EmptyMap
    /\ nullifiers = EmptyMap
    /\ clock = [slot |-> ToU64(0), unix_timestamp |-> 0]
    /\ last = [op |-> "deploy", ix0 |-> NoIx0, moved |-> <<>>]
    /\ tally = EmptyMap
    /\ funded = EmptyMap
    /\ NoPayroll

\* The history of an instruction: a successful instruction is recorded with
\* the first instruction of its transaction and the transfers it made out of
\* the pool vault, each as <<recipient, amount, record paid against>>; a
\* failed instruction is reverted by the host and leaves no trace.
Outcome(op, err, ix0, moved) ==
    IF err = "Ok" THEN [op |-> op, ix0 |-> ix0, moved |-> moved] ELSE last

Count(h, id) == IF id \in DOMAIN h THEN h[id] ELSE 0
Bump(h, id) == (id :> (Count(h, id) + 1)) @@ h

\* u64::checked_add and u64::saturating_add at the modelled width
checked_add_ok(a, b) == a + b <= U64_MAX
\* An addition that wraps around at the width instead of clamping.
saturating_add_wrapped(a, b) == (a + b) % (U64_MAX + 1)
saturating_add(a, b) == IF a + b <= U64_MAX THEN a + b ELSE U64_MAX


now == clock.unix_timestamp

\* ------------------------------------------------------- init_privacy_pool
init_privacy_pool_err == IF pool.exists THEN "AccountAlreadyInUse" ELSE "Ok"

InitPrivacyPool ==
    LET err == init_privacy_pool_err IN
    /\ last' = Outcome("init_privacy_pool", err, NoIx0, <<>>)
    /\ IF err = "Ok"
       THEN pool' = [exists |-> TRUE, total_deposited |-> 0, total_withdrawn |-> 0,
                     deposit_count |-> 0, withdraw_count |-> 0, churn_count |-> 0]
       ELSE UNCHANGED pool
    /\ UNCHANGED <<pool_vault, churn_state, churn_vault, pending, commitments,
                   nullifiers, clock, tally, funded>>
    /\ UNCHANGED payroll

\* pool_deposit that takes the standardized amounts only.
pool_deposit_err_standardized(depositor_lamports, amount) ==
    IF ~pool.exists THEN "AccountNotInitialized"
    ELSE IF ~(amount > 0) THEN "InvalidAmount"
    ELSE IF amount \notin ALLOWED_AMOUNTS THEN "InvalidWithdrawAmount"
    ELSE IF depositor_lamports < amount THEN "InsufficientLamports"
    ELSE IF ~checked_add_ok(pool.total_deposited, amount) THEN "Overflow"
    ELSE IF ~checked_add_ok(pool.deposit_count, 1) THEN "Overflow"
    ELSE "Ok"

\* ------------------------------------------------------------ pool_deposit
\* The first check of pool_deposit that fails, in the order of the code; the
\* system transfer fails when the depositor holds less than amount.
pool_deposit_err(depositor_lamports, amount) ==
    IF ~pool.exists THEN "AccountNotInitialized"
    ELSE IF ~(amount > 0) THEN "InvalidAmount"
    ELSE IF depositor_lamports < amount THEN "InsufficientLamports"
    ELSE IF ~checked_add_ok(pool.total_deposited, amount) THEN "Overflow"
    ELSE IF ~checked_add_ok(pool.deposit_count, 1) THEN "Overflow"
    ELSE "Ok"

PoolDeposit(depositor_lamports, amount) ==
    LET err == pool_deposit_err(depositor_lamports, amount) IN
    /\ err = "Ok" => pool.deposit_count < MaxDeposits
    /\ last' = Outcome("pool_deposit", err, NoIx0, <<>>)
    /\ IF err = "Ok"
       THEN /\ pool_vault' = pool_vault + amount
            /\ pool' = [pool EXCEPT !.total_deposited = @ + amount,
                                    !.deposit_count = @ + 1]
       ELSE UNCHANGED <<pool, pool_vault>>
    /\ UNCHANGED <<churn_state, churn_vault, pending, commitments, nullifiers,
                   clock, tally, funded>>
    /\ UNCHANGED payroll

\* request_withdraw without the comparison of the amount with ALLOWED_AMOUNTS.
request_withdraw_err_any_amount(recipient, amount) ==
    IF ~pool.exists THEN "AccountNotInitialized"
    ELSE IF recipient \in DOMAIN pending THEN "AccountAlreadyInUse"
    ELSE IF ~(amount <= pool_vault) THEN "InsufficientPoolFunds"
    ELSE "Ok"

\* request_withdraw with a pending account made by init_if_needed.
request_withdraw_err_rerequestable(recipient, amount) ==
    IF ~pool.exists THEN "AccountNotInitialized"
    ELSE IF amount \notin ALLOWED_AMOUNTS THEN "InvalidWithdrawAmount"
    ELSE IF ~(amount <= pool_vault) THEN "InsufficientPoolFunds"
    ELSE "Ok"

\* -------------------------------------------------------- request_withdraw
\* The pending_withdraw PDA is created (init) while the accounts are
\* validated, before the handler runs.
request_withdraw_err(recipient, amount) ==
    IF ~pool.exists THEN "AccountNotInitialized"
    ELSE IF recipient \in DOMAIN pending THEN "AccountAlreadyInUse"
    ELSE IF amount \notin ALLOWED_AMOUNTS THEN "InvalidWithdrawAmount"
    ELSE IF ~(amount <= pool_vault) THEN "InsufficientPoolFunds"
    ELSE "Ok"

new_pending(recipient, amount) ==
    [recipient |-> recipient,
     amount |-> amount,
     requested_at |-> now,
     available_at |-> now + variable_delay(clock.slot, recipient),
     claimed |-> FALSE]

RequestWithdraw(recipient, amount) ==
    LET err == request_withdraw_err(recipient, amount) IN
    /\ last' = Outcome("request_withdraw", err, NoIx0, <<>>)
    /\ IF err = "Ok"
       THEN pending' = (recipient :> new_pending(recipient, amount)) @@ pending
       ELSE UNCHANGED pending
    /\ UNCHANGED <<pool, pool_vault, churn_state, churn_vault, commitments,
                   nullifiers, clock, tally, funded>>
    /\ UNCHANGED payroll

\* claim_withdraw without the comparison of the clock with available_at.
claim_withdraw_err_ungated(recipient) ==
    IF ~pool.exists THEN "AccountNotInitialized"
    ELSE IF recipient \notin DOMAIN pending THEN "AccountNotInitialized"
    ELSE IF pending[recipient].recipient # recipient THEN "Unauthorized"
    ELSE IF ~(~pending[recipient].claimed) THEN "AlreadyClaimed"
    ELSE IF pool_vault < pending[recipient].amount THEN "InsufficientLamports"
    ELSE IF ~checked_add_ok(pool.total_withdrawn, pending[recipient].amount) THEN "Overflow"
    ELSE IF ~checked_add_ok(pool.withdraw_count, 1) THEN "Overflow"
    ELSE "Ok"

\* ---------------------------------------------------------- claim_withdraw
\* The recipient signs; the pending_withdraw account is the PDA of its key.
claim_withdraw_err(recipient) ==
    IF ~pool.exists THEN "AccountNotInitialized"
    ELSE IF recipient \notin DOMAIN pending THEN "AccountNotInitialized"
    ELSE IF pending[recipient].recipient # recipient THEN "Unauthorized"
    ELSE IF ~(~pending[recipient].claimed) THEN "AlreadyClaimed"
    ELSE IF ~(now >= pending[recipient].available_at) THEN "WithdrawNotReady"
    ELSE IF pool_vault < pending[recipient].amount THEN "InsufficientLamports"
    ELSE IF ~checked_add_ok(pool.total_withdrawn, pending[recipient].amount) THEN "Overflow"
    ELSE IF ~checked_add_ok(pool.withdraw_count, 1) THEN "Overflow"
    ELSE "Ok"

\* The effect of a claim without the total_withdrawn update.
PayPending_uncounted(pda, recipient) ==
    LET amount == pending[pda].amount IN
    /\ pool_vault' = pool_vault - amount
    /\ pending' = [pending EXCEPT ![pda].claimed = TRUE]
    /\ pool' = [pool EXCEPT !.withdraw_count = @ + 1]
    /\ tally' = Bump(tally, <<"pending", pda>>)

\* The effect shared by claim_withdraw and claim_withdraw_relayed: the
\* transfer out of the pool vault, the claimed flag and the pool aggregates.
PayPending(pda, recipient) ==
    LET amount == pending[pda].amount IN
    /\ pool_vault' = pool_vault - amount
    /\ pending' = [pending EXCEPT ![pda].claimed = TRUE]
    /\ pool' = [pool EXCEPT !.total_withdrawn = @ + amount,
                            !.withdraw_count = @ + 1]
    /\ tally' = Bump(tally, <<"pending", pda>>)

ClaimWithdraw(recipient) ==
    LET err == claim_withdraw_err(recipient) IN
    /\ last' = Outcome("claim_withdraw", err, NoIx0,
                       <<<<recipient, pending[recipient].amount,
                           <<"pending", recipient>>>>>>)
    /\ IF err = "Ok"
       THEN PayPending(recipient, recipient)
       ELSE UNCHANGED <<pool, pool_vault, pending, tally>>
    /\ UNCHANGED <<churn_state, churn_vault, commitments, nullifiers, clock, funded>>
    /\ UNCHANGED payroll

\* claim_withdraw_relayed that does not look at instruction 0.
claim_withdraw_relayed_err_unverified(recipient, pda, ix0) ==
    IF ~pool.exists THEN "AccountNotInitialized"
    ELSE IF pda \notin DOMAIN pending THEN "AccountNotInitialized"
    ELSE IF pending[pda].recipient # recipient THEN "Unauthorized"
    ELSE IF ~(~pending[pda].claimed) THEN "AlreadyClaimed"
    ELSE IF ~(now >= pending[pda].available_at) THEN "WithdrawNotReady"
    ELSE IF ~(recipient = pending[pda].recipient) THEN "SignerMismatch"
    ELSE IF pool_vault < pending[pda].amount THEN "InsufficientLamports"
    ELSE IF ~checked_add_ok(pool.total_withdrawn, pending[pda].amount) THEN "Overflow"
    ELSE IF ~checked_add_ok(pool.withdraw_count, 1) THEN "Overflow"
    ELSE "Ok"

\* -------------------------------------------------- claim_withdraw_relayed
\* recipient is an unchecked account, pda the key whose pending_withdraw PDA
\* is passed, ix0 the first instruction of the transaction.
claim_withdraw_relayed_err(recipient, pda, ix0) ==
    IF ~pool.exists THEN "AccountNotInitialized"
    ELSE IF pda \notin DOMAIN pending THEN "AccountNotInitialized"
    ELSE IF pending[pda].recipient # recipient THEN "Unauthorized"
    ELSE IF ~(~pending[pda].claimed) THEN "AlreadyClaimed"
    ELSE IF ~(now >= pending[pda].available_at) THEN "WithdrawNotReady"
    ELSE IF ~(recipient = pending[pda].recipient) THEN "SignerMismatch"
    ELSE IF ~(ix0.program_id = ED25519_PROGRAM) THEN "InvalidSignatureInstruction"
    ELSE IF pool_vault < pending[pda].amount THEN "InsufficientLamports"
    ELSE IF ~checked_add_ok(pool.total_withdrawn, pending[pda].amount) THEN "Overflow"
    ELSE IF ~checked_add_ok(pool.withdraw_count, 1) THEN "Overflow"
    ELSE "Ok"

ClaimWithdrawRelayed(recipient, pda, ix0) ==
    LET err == claim_withdraw_relayed_err(recipient, pda, ix0) IN
    /\ last' = Outcome("claim_withdraw_relayed", err, ix0,
                       <<<<recipient, pending[pda].amount, <<"pending", pda>>>>>>)
    /\ IF err = "Ok"
       THEN PayPending(pda, recipient)
       ELSE UNCHANGED <<pool, pool_vault, pending, tally>>
    /\ UNCHANGED <<churn_state, churn_vault, commitments, nullifiers, clock, funded>>
    /\ UNCHANGED payroll


\* ---------------------------------------------------- batch_claim_withdraw
\* The remaining accounts of a batch: wallets and pending_withdraw PDAs.
Wallet(k) == [kind |-> "wallet", key |-> k]
PendingPda(k) == [kind |-> "pending", key |-> k]

\* PendingWithdraw::SPACE = 8 + 32 + 8 + 8 + 8 + 1 + 1 + 16
PENDING_SPACE == 82

\* pending_data.len(): a PDA that was never created, and a wallet, hold no data
data_len(pend, account) ==
    IF account.kind = "pending" /\ account.key \in DOMAIN pend THEN PENDING_SPACE ELSE 0

\* batch_pair that pays without writing the claimed flag.
batch_pair_flag_unwritten(st, recipient_info, pending_info) ==
    IF data_len(st.pend, pending_info) < PENDING_MIN_LEN THEN st
    ELSE LET rec == st.pend[pending_info.key] IN
         IF ~(recipient_info.kind = "wallet" /\ recipient_info.key = rec.recipient) THEN st
         ELSE IF rec.claimed THEN st
         ELSE IF now < rec.available_at THEN st
         ELSE IF rec.amount > st.vault THEN st
         ELSE [vault |-> st.vault - rec.amount,
               pend |-> st.pend,
               total_claimed |-> saturating_add(st.total_claimed, rec.amount),
               success_count |-> st.success_count + 1,
               moved |-> Append(st.moved, <<recipient_info.key, rec.amount,
                                            <<"pending", pending_info.key>>>>),
               paid |-> Bump(st.paid, <<"pending", pending_info.key>>)]

\* batch_pair without the comparison of the clock with available_at.
batch_pair_ungated(st, recipient_info, pending_info) ==
    IF data_len(st.pend, pending_info) < PENDING_MIN_LEN THEN st
    ELSE LET rec == st.pend[pending_info.key] IN
         IF ~(recipient_info.kind = "wallet" /\ recipient_info.key = rec.recipient) THEN st
         ELSE IF rec.claimed THEN st
         ELSE IF rec.amount > st.vault THEN st
         ELSE [vault |-> st.vault - rec.amount,
               pend |-> [st.pend EXCEPT ![pending_info.key].claimed = TRUE],
               total_claimed |-> saturating_add(st.total_claimed, rec.amount),
               success_count |-> st.success_count + 1,
               moved |-> Append(st.moved, <<recipient_info.key, rec.amount,
                                            <<"pending", pending_info.key>>>>),
               paid |-> Bump(st.paid, <<"pending", pending_info.key>>)]

\* One pass of the loop body for the pair (recipient_info, pending_info), on
\* the running state st of the batch: the pool vault balance, the pending
\* records, total_claimed, success_count and the transfers made so far.
batch_pair(st, recipient_info, pending_info) ==
    IF data_len(st.pend, pending_info) < PENDING_MIN_LEN THEN st
    ELSE LET rec == st.pend[pending_info.key] IN
         IF ~(recipient_info.kind = "wallet" /\ recipient_info.key = rec.recipient) THEN st
         ELSE IF rec.claimed THEN st
         ELSE IF now < rec.available_at THEN st
         ELSE IF rec.amount > st.vault THEN st
         ELSE [vault |-> st.vault - rec.amount,
               pend |-> [st.pend EXCEPT ![pending_info.key].claimed = TRUE],
               total_claimed |-> saturating_add(st.total_claimed, rec.amount),
               success_count |-> st.success_count + 1,
               moved |-> Append(st.moved, <<recipient_info.key, rec.amount,
                                            <<"pending", pending_info.key>>>>),
               paid |-> Bump(st.paid, <<"pending", pending_info.key>>)]

\* for i in 0..num_claims, from pair i (counted from 1) on
RECURSIVE batch_loop(_, _, _)
batch_loop(remaining, i, st) ==
    IF i > Len(remaining) \div 2 THEN st
    ELSE batch_loop(remaining, i + 1,
                    batch_pair(st, remaining[2 * i - 1], remaining[2 * i]))

batch_claim_err(remaining) ==
    IF ~pool.exists THEN "AccountNotInitialized"
    ELSE IF ~(Len(remaining) >= 2) THEN "BatchTooSmall"
    ELSE IF ~(Len(remaining) % 2 = 0) THEN "BatchInvalidPairs"
    ELSE IF ~(Len(remaining) <= 10) THEN "BatchTooLarge"
    ELSE "Ok"

batch_result(remaining) ==
    batch_loop(remaining, 1,
               [vault |-> pool_vault, pend |-> pending, total_claimed |-> 0,
                success_count |-> 0, moved |-> <<>>, paid |-> tally])

\* The result of the instruction.  The handler lowers the lamports of the
\* pool vault by writing the account's balance itself, where every other
\* instruction asks the system program to transfer with the vault's signer
\* seeds: the vault is a SystemAccount, owned by the system program, and the
\* host rejects an instruction that has lowered the balance of an account its
\* program does not own.
batch_claim_withdraw_err(remaining) ==
    IF batch_claim_err(remaining) # "Ok" THEN batch_claim_err(remaining)
    ELSE IF batch_result(remaining).vault < pool_vault THEN "ExternalAccountLamportSpend"
    ELSE "Ok"

BatchClaimWithdraw(remaining) ==
    LET err == batch_claim_withdraw_err(remaining)
        res == batch_result(remaining)
    IN
    /\ last' = Outcome("batch_claim_withdraw", err, NoIx0, res.moved)
    /\ IF err = "Ok"
       THEN /\ pool_vault' = res.vault
            /\ pending' = res.pend
            /\ tally' = res.paid
            /\ pool' = IF res.success_count > 0
                       THEN [pool EXCEPT
                               !.total_withdrawn = saturating_add(@, res.total_claimed),
                               !.withdraw_count = saturating_add(@, res.success_count)]
                       ELSE pool
       ELSE UNCHANGED <<pool, pool_vault, pending, tally>>
    /\ UNCHANGED <<churn_state, churn_vault, commitments, nullifiers, clock, funded>>
    /\ UNCHANGED payroll

\* The pairs offered to a batch: each wallet with its own pending PDA, the
\* first wallet with the pending PDA of another key, and the first wallet
\* with an account that holds no PendingWithdraw data.
BatchPairs ==
    {<<Wallet(k), PendingPda(k)>> : k \in Keys}
        \cup {<<Wallet(KeyOf(1)), PendingPda(KeyOf(2))>>,
              <<Wallet(KeyOf(1)), Wallet(KeyOf(1))>>}

RECURSIVE PairLists(_)
PairLists(n) ==
    IF n = 0 THEN {<<>>}
    ELSE {pr \o rest : pr \in BatchPairs, rest \in PairLists(n - 1)}

Repeat(account, n) == [i \in 1..n |-> account]

\* The batches offered: every list of 1..MaxPairs pairs, and lists of 0, 1,
\* 3, 11 and 12 accounts.
BatchInputs ==
    UNION {PairLists(n) : n \in 1..MaxPairs}
        \cup {Repeat(PendingPda(KeyOf(1)), n) : n \in {0, 1, 3, 11, 12}}

\* init_churn_vault without the check of the index.
init_churn_vault_err_any_index(vault_index) ==
    IF ~pool.exists THEN "AccountNotInitialized"
    ELSE IF vault_index \in DOMAIN churn_state THEN "AccountAlreadyInUse"
    ELSE "Ok"

\* --------------------------------------------------------- churn vaults
\* The churn_state PDA is created (init) before the handler checks the index.
init_churn_vault_err(vault_index) ==
    IF ~pool.exists THEN "AccountNotInitialized"
    ELSE IF vault_index \in DOMAIN churn_state THEN "AccountAlreadyInUse"
    ELSE IF ~(vault_index < NUM_CHURN_VAULTS) THEN "InvalidChurnIndex"
    ELSE "Ok"

InitChurnVault(vault_index) ==
    LET err == init_churn_vault_err(vault_index) IN
    /\ last' = Outcome("init_churn_vault", err, NoIx0, <<>>)
    /\ IF err = "Ok"
       THEN churn_state' = (vault_index :> [vault_index |-> vault_index,
                                            total_churned |-> 0,
                                            churn_count |-> 0]) @@ churn_state
       ELSE UNCHANGED churn_state
    /\ UNCHANGED <<pool, pool_vault, churn_vault, pending, commitments,
                   nullifiers, clock, tally, funded>>
    /\ UNCHANGED payroll

pool_churn_err(vault_index, amount) ==
    IF ~pool.exists THEN "AccountNotInitialized"
    ELSE IF vault_index \notin DOMAIN churn_state THEN "AccountNotInitialized"
    ELSE IF ~(amount > 0) THEN "InvalidAmount"
    ELSE IF ~(amount <= pool_vault) THEN "InsufficientPoolFunds"
    ELSE "Ok"

\* The runs that churn at most MaxChurns times take a churn only while this
\* holds.
ChurnsLeft(vault_index, amount) ==
    pool_churn_err(vault_index, amount) = "Ok" => pool.churn_count < MaxChurns

\* churn that leaves the pool's churn_count as it was.
PoolChurn_unrecorded(vault_index, amount) ==
    LET err == pool_churn_err(vault_index, amount) IN
    /\ last' = Outcome("pool_churn", err, NoIx0, <<>>)
    /\ IF err = "Ok"
       THEN /\ pool_vault' = pool_vault - amount
            /\ churn_vault' = [churn_vault EXCEPT ![vault_index] = @ + amount]
            /\ churn_state' = [churn_state EXCEPT
                                 ![vault_index].total_churned = saturating_add(@, amount),
                                 ![vault_index].churn_count = saturating_add(@, 1)]
            /\ pool' = pool
       ELSE UNCHANGED <<pool, pool_vault, churn_vault, churn_state>>
    /\ UNCHANGED <<pending, commitments, nullifiers, clock, tally, funded>>
    /\ UNCHANGED payroll

PoolChurn(vault_index, amount) ==
    LET err == pool_churn_err(vault_index, amount) IN
    /\ last' = Outcome("pool_churn", err, NoIx0, <<>>)
    /\ IF err = "Ok"
       THEN /\ pool_vault' = pool_vault - amount
            /\ churn_vault' = [churn_vault EXCEPT ![vault_index] = @ + amount]
            /\ churn_state' = [churn_state EXCEPT
                                 ![vault_index].total_churned = saturating_add(@, amount),
                                 ![vault_index].churn_count = saturating_add(@, 1)]
            /\ pool' = [pool EXCEPT !.churn_count = saturating_add(@, 1)]
       ELSE UNCHANGED <<pool, pool_vault, churn_vault, churn_state>>
    /\ UNCHANGED <<pending, commitments, nullifiers, clock, tally, funded>>
    /\ UNCHANGED payroll

\* unchurn without the check of the amount against 0.
pool_unchurn_err_zero_accepted(vault_index, amount) ==
    IF ~pool.exists THEN "AccountNotInitialized"
    ELSE IF vault_index \notin DOMAIN churn_state THEN "AccountNotInitialized"
    ELSE IF ~(amount <= churn_vault[vault_index]) THEN "InsufficientChurnFunds"
    ELSE "Ok"

pool_unchurn_err(vault_index, amount) ==
    IF ~pool.exists THEN "AccountNotInitialized"
    ELSE IF vault_index \notin DOMAIN churn_state THEN "AccountNotInitialized"
    ELSE IF ~(amount > 0) THEN "InvalidAmount"
    ELSE IF ~(amount <= churn_vault[vault_index]) THEN "InsufficientChurnFunds"
    ELSE "Ok"

\* unchurn that credits the pool vault without debiting the churn vault.
PoolUnchurn_undebited(vault_index, amount) ==
    LET err == pool_unchurn_err(vault_index, amount) IN
    /\ last' = Outcome("pool_unchurn", err, NoIx0, <<>>)
    /\ IF err = "Ok"
       THEN /\ churn_vault' = churn_vault
            /\ pool_vault' = pool_vault + amount
       ELSE UNCHANGED <<pool_vault, churn_vault>>
    /\ UNCHANGED <<pool, churn_state, pending, commitments, nullifiers, clock,
                   tally, funded>>
    /\ UNCHANGED payroll

PoolUnchurn(vault_index, amount) ==
    LET err == pool_unchurn_err(vault_index, amount) IN
    /\ last' = Outcome("pool_unchurn", err, NoIx0, <<>>)
    /\ IF err = "Ok"
       THEN /\ churn_vault' = [churn_vault EXCEPT ![vault_index] = @ - amount]
            /\ pool_vault' = pool_vault + amount
       ELSE UNCHANGED <<pool_vault, churn_vault>>
    /\ UNCHANGED <<pool, churn_state, pending, commitments, nullifiers, clock,
                   tally, funded>>
    /\ UNCHANGED payroll


\* private_deposit with a commitment account made by init_if_needed: an
\* existing record does not stop the instruction.
private_deposit_err_commitment_reusable(depositor_lamports, commitment, amount) ==
    IF ~pool.exists THEN "AccountNotInitialized"
    ELSE IF amount \notin ALLOWED_AMOUNTS THEN "InvalidWithdrawAmount"
    ELSE IF depositor_lamports < amount THEN "InsufficientLamports"
    ELSE IF ~checked_add_ok(pool.total_deposited, amount) THEN "Overflow"
    ELSE IF ~checked_add_ok(pool.deposit_count, 1) THEN "Overflow"
    ELSE "Ok"

\* --------------------------------------------------------- private_deposit
\* The commitment PDA is created (init) while the accounts are validated.
private_deposit_err(depositor_lamports, commitment, amount) ==
    IF ~pool.exists THEN "AccountNotInitialized"
    ELSE IF commitment \in DOMAIN commitments THEN "AccountAlreadyInUse"
    ELSE IF amount \notin ALLOWED_AMOUNTS THEN "InvalidWithdrawAmount"
    ELSE IF depositor_lamports < amount THEN "InsufficientLamports"
    ELSE IF ~checked_add_ok(pool.total_deposited, amount) THEN "Overflow"
    ELSE IF ~checked_add_ok(pool.deposit_count, 1) THEN "Overflow"
    ELSE "Ok"

PrivateDeposit(depositor_lamports, commitment, amount) ==
    LET err == private_deposit_err(depositor_lamports, commitment, amount) IN
    /\ err = "Ok" => pool.deposit_count < MaxDeposits
    /\ last' = Outcome("private_deposit", err, NoIx0, <<>>)
    /\ IF err = "Ok"
       THEN /\ pool_vault' = pool_vault + amount
            /\ commitments' = (commitment :> [commitment |-> commitment,
                                              amount |-> amount,
                                              timestamp |-> now,
                                              spent |-> FALSE]) @@ commitments
            /\ pool' = [pool EXCEPT !.total_deposited = @ + amount,
                                    !.deposit_count = @ + 1]
            /\ funded' = (commitment :> (Count(funded, commitment) + amount)) @@ funded
            /\ tally' = Bump(tally, <<"commitment", commitment>>)
       ELSE UNCHANGED <<pool, pool_vault, commitments, funded, tally>>
    /\ UNCHANGED <<churn_state, churn_vault, pending, nullifiers, clock>>
    /\ UNCHANGED payroll

\* private_withdraw with a nullifier account made by init_if_needed: an existing
\* nullifier record does not stop the instruction.
private_withdraw_err_nullifier_reusable(nullifier, secret_hash, amount, cpda) ==
    IF ~pool.exists THEN "AccountNotInitialized"
    ELSE IF cpda \notin DOMAIN commitments THEN "AccountNotInitialized"
    ELSE IF amount \notin ALLOWED_AMOUNTS THEN "InvalidWithdrawAmount"
    ELSE IF ~(compute_commitment(secret_hash, nullifier, amount) = commitments[cpda].commitment)
         THEN "InvalidCommitmentProof"
    ELSE IF ~(~commitments[cpda].spent) THEN "NullifierAlreadyUsed"
    ELSE IF ~(commitments[cpda].amount = amount) THEN "InvalidAmount"
    ELSE IF pool_vault < amount THEN "InsufficientLamports"
    ELSE IF ~checked_add_ok(pool.total_withdrawn, amount) THEN "Overflow"
    ELSE IF ~checked_add_ok(pool.withdraw_count, 1) THEN "Overflow"
    ELSE "Ok"

\* private_withdraw without the comparison of the stored amount with the
\* requested amount.
private_withdraw_err_amount_unchecked(nullifier, secret_hash, amount, cpda) ==
    IF ~pool.exists THEN "AccountNotInitialized"
    ELSE IF cpda \notin DOMAIN commitments THEN "AccountNotInitialized"
    ELSE IF nullifier \in DOMAIN nullifiers THEN "AccountAlreadyInUse"
    ELSE IF amount \notin ALLOWED_AMOUNTS THEN "InvalidWithdrawAmount"
    ELSE IF ~(compute_commitment(secret_hash, nullifier, amount) = commitments[cpda].commitment)
         THEN "InvalidCommitmentProof"
    ELSE IF ~(~commitments[cpda].spent) THEN "NullifierAlreadyUsed"
    ELSE IF pool_vault < amount THEN "InsufficientLamports"
    ELSE IF ~checked_add_ok(pool.total_withdrawn, amount) THEN "Overflow"
    ELSE IF ~checked_add_ok(pool.withdraw_count, 1) THEN "Overflow"
    ELSE "Ok"

\* private_withdraw that accepts any proved amount up to the stored one.
private_withdraw_err_amount_at_most(nullifier, secret_hash, amount, cpda) ==
    IF ~pool.exists THEN "AccountNotInitialized"
    ELSE IF cpda \notin DOMAIN commitments THEN "AccountNotInitialized"
    ELSE IF nullifier \in DOMAIN nullifiers THEN "AccountAlreadyInUse"
    ELSE IF amount \notin ALLOWED_AMOUNTS THEN "InvalidWithdrawAmount"
    ELSE IF ~(compute_commitment(secret_hash, nullifier, amount) = commitments[cpda].commitment)
         THEN "InvalidCommitmentProof"
    ELSE IF ~(~commitments[cpda].spent) THEN "NullifierAlreadyUsed"
    ELSE IF ~(amount <= commitments[cpda].amount) THEN "InvalidAmount"
    ELSE IF pool_vault < amount THEN "InsufficientLamports"
    ELSE IF ~checked_add_ok(pool.total_withdrawn, amount) THEN "Overflow"
    ELSE IF ~checked_add_ok(pool.withdraw_count, 1) THEN "Overflow"
    ELSE "Ok"

\* -------------------------------------------------------- private_withdraw
\* cpda is the commitment whose PDA is passed as commitment_pda; the
\* nullifier PDA is created (init) while the accounts are validated.
private_withdraw_err(nullifier, secret_hash, amount, cpda) ==
    IF ~pool.exists THEN "AccountNotInitialized"
    ELSE IF cpda \notin DOMAIN commitments THEN "AccountNotInitialized"
    ELSE IF nullifier \in DOMAIN nullifiers THEN "AccountAlreadyInUse"
    ELSE IF amount \notin ALLOWED_AMOUNTS THEN "InvalidWithdrawAmount"
    ELSE IF ~(compute_commitment(secret_hash, nullifier, amount) = commitments[cpda].commitment)
         THEN "InvalidCommitmentProof"
    ELSE IF ~(~commitments[cpda].spent) THEN "NullifierAlreadyUsed"
    ELSE IF ~(commitments[cpda].amount = amount) THEN "InvalidAmount"
    ELSE IF pool_vault < amount THEN "InsufficientLamports"
    ELSE IF ~checked_add_ok(pool.total_withdrawn, amount) THEN "Overflow"
    ELSE IF ~checked_add_ok(pool.withdraw_count, 1) THEN "Overflow"
    ELSE "Ok"

\* The effect of a private withdrawal without the withdraw_count update.
PayCommitment_uncounted(nullifier, amount, cpda) ==
    /\ commitments' = [commitments EXCEPT ![cpda].spent = TRUE]
    /\ nullifiers' = (nullifier :> [nullifier |-> nullifier, used_at |-> now]) @@ nullifiers
    /\ pool_vault' = pool_vault - amount
    /\ pool' = [pool EXCEPT !.total_withdrawn = @ + amount]
    /\ tally' = Bump(tally, <<"nullifier", nullifier>>)

\* The effect of a private withdrawal that leaves the spent flag as it was.
PayCommitment_unmarked(nullifier, amount, cpda) ==
    /\ commitments' = commitments
    /\ nullifiers' = (nullifier :> [nullifier |-> nullifier, used_at |-> now]) @@ nullifiers
    /\ pool_vault' = pool_vault - amount
    /\ pool' = [pool EXCEPT !.total_withdrawn = @ + amount,
                            !.withdraw_count = @ + 1]
    /\ tally' = Bump(tally, <<"nullifier", nullifier>>)

\* The effect shared by private_withdraw and private_withdraw_relayed.
PayCommitment(nullifier, amount, cpda) ==
    /\ commitments' = [commitments EXCEPT ![cpda].spent = TRUE]
    /\ nullifiers' = (nullifier :> [nullifier |-> nullifier, used_at |-> now]) @@ nullifiers
    /\ pool_vault' = pool_vault - amount
    /\ pool' = [pool EXCEPT !.total_withdrawn = @ + amount,
                            !.withdraw_count = @ + 1]
    /\ tally' = Bump(tally, <<"nullifier", nullifier>>)

\* private_withdraw that pays the first key whoever the recipient is.
PrivateWithdraw_to_first_key(nullifier, secret_hash, amount, cpda, recipient) ==
    LET err == private_withdraw_err(nullifier, secret_hash, amount, cpda) IN
    /\ last' = Outcome("private_withdraw", err, NoIx0,
                       <<<<KeyOf(1), amount, <<"commitment", cpda>>>>>>)
    /\ IF err = "Ok"
       THEN PayCommitment(nullifier, amount, cpda)
       ELSE UNCHANGED <<pool, pool_vault, commitments, nullifiers, tally>>
    /\ UNCHANGED <<churn_state, churn_vault, pending, clock, funded>>
    /\ UNCHANGED payroll

PrivateWithdraw(nullifier, secret_hash, amount, cpda, recipient) ==
    LET err == private_withdraw_err(nullifier, secret_hash, amount, cpda) IN
    /\ last' = Outcome("private_withdraw", err, NoIx0,
                       <<<<recipient, amount, <<"commitment", cpda>>>>>>)
    /\ IF err = "Ok"
       THEN PayCommitment(nullifier, amount, cpda)
       ELSE UNCHANGED <<pool, pool_vault, commitments, nullifiers, tally>>
    /\ UNCHANGED <<churn_state, churn_vault, pending, clock, funded>>
    /\ UNCHANGED payroll

\* private_withdraw_relayed that trusts the relayer with the commitment
\* account and does not compare the recomputed hash.
private_withdraw_relayed_err_proof_unchecked(nullifier, secret_hash, amount, cpda, ix0) ==
    IF ~pool.exists THEN "AccountNotInitialized"
    ELSE IF cpda \notin DOMAIN commitments THEN "AccountNotInitialized"
    ELSE IF nullifier \in DOMAIN nullifiers THEN "AccountAlreadyInUse"
    ELSE IF amount \notin ALLOWED_AMOUNTS THEN "InvalidWithdrawAmount"
    ELSE IF ~(ix0.program_id = ED25519_PROGRAM) THEN "InvalidSignatureInstruction"
    ELSE IF ~(~commitments[cpda].spent) THEN "NullifierAlreadyUsed"
    ELSE IF ~(commitments[cpda].amount = amount) THEN "InvalidAmount"
    ELSE IF pool_vault < amount THEN "InsufficientLamports"
    ELSE IF ~checked_add_ok(pool.total_withdrawn, amount) THEN "Overflow"
    ELSE IF ~checked_add_ok(pool.withdraw_count, 1) THEN "Overflow"
    ELSE "Ok"

\* private_withdraw_relayed with a nullifier account made by init_if_needed.
private_withdraw_relayed_err_nullifier_reusable(nullifier, secret_hash, amount, cpda, ix0) ==
    IF ~pool.exists THEN "AccountNotInitialized"
    ELSE IF cpda \notin DOMAIN commitments THEN "AccountNotInitialized"
    ELSE IF amount \notin ALLOWED_AMOUNTS THEN "InvalidWithdrawAmount"
    ELSE IF ~(ix0.program_id = ED25519_PROGRAM) THEN "InvalidSignatureInstruction"
    ELSE IF ~(compute_commitment(secret_hash, nullifier, amount) = commitments[cpda].commitment)
         THEN "InvalidCommitmentProof"
    ELSE IF ~(~commitments[cpda].spent) THEN "NullifierAlreadyUsed"
    ELSE IF ~(commitments[cpda].amount = amount) THEN "InvalidAmount"
    ELSE IF pool_vault < amount THEN "InsufficientLamports"
    ELSE IF ~checked_add_ok(pool.total_withdrawn, amount) THEN "Overflow"
    ELSE IF ~checked_add_ok(pool.withdraw_count, 1) THEN "Overflow"
    ELSE "Ok"

\* ------------------------------------------------ private_withdraw_relayed
private_withdraw_relayed_err(nullifier, secret_hash, amount, cpda, ix0) ==
    IF ~pool.exists THEN "AccountNotInitialized"
    ELSE IF cpda \notin DOMAIN commitments THEN "AccountNotInitialized"
    ELSE IF nullifier \in DOMAIN nullifiers THEN "AccountAlreadyInUse"
    ELSE IF amount \notin ALLOWED_AMOUNTS THEN "InvalidWithdrawAmount"
    ELSE IF ~(ix0.program_id = ED25519_PROGRAM) THEN "InvalidSignatureInstruction"
    ELSE IF ~(compute_commitment(secret_hash, nullifier, amount) = commitments[cpda].commitment)
         THEN "InvalidCommitmentProof"
    ELSE IF ~(~commitments[cpda].spent) THEN "NullifierAlreadyUsed"
    ELSE IF ~(commitments[cpda].amount = amount) THEN "InvalidAmount"
    ELSE IF pool_vault < amount THEN "InsufficientLamports"
    ELSE IF ~checked_add_ok(pool.total_withdrawn, amount) THEN "Overflow"
    ELSE IF ~checked_add_ok(pool.withdraw_count, 1) THEN "Overflow"
    ELSE "Ok"

PrivateWithdrawRelayed(nullifier, secret_hash, amount, cpda, recipient, ix0) ==
    LET err == private_withdraw_relayed_err(nullifier, secret_hash, amount, cpda, ix0) IN
    /\ last' = Outcome("private_withdraw_relayed", err, ix0,
                       <<<<recipient, amount, <<"commitment", cpda>>>>>>)
    /\ IF err = "Ok"
       THEN PayCommitment(nullifier, amount, cpda)
       ELSE UNCHANGED <<pool, pool_vault, commitments, nullifiers, tally>>
    /\ UNCHANGED <<churn_state, churn_vault, pending, clock, funded>>
    /\ UNCHANGED payroll

\* The commitment PDAs a caller can pass: the existing ones and the one the
\* arguments hash to.
CommitmentPdaInputs(nullifier, secret_hash, amount) ==
    DOMAIN commitments \cup {compute_commitment(secret_hash, nullifier, amount)}

\* ------------------------------------------------------------------- clock
\* The host advances the clock, one slot a second.  Only the comparison of
\* unix_timestamp with the available_at of a pending withdrawal is read, so
\* the clock moves to the second before or to the second of a release time.
ClockTargets ==
    {pending[k].available_at + d : k \in DOMAIN pending, d \in {-1, 0}}

AdvanceClock(t) ==
    /\ t > now
    /\ clock' = [slot |-> wrapping_add(clock.slot, ToU64(t - now)), unix_timestamp |-> t]
    /\ UNCHANGED <<pool, pool_vault, churn_state, churn_vault, pending,
                   commitments, nullifiers, last, tally, funded>>
    /\ UNCHANGED payroll

\* ----------------------------------------------------- payroll and receipts
\* The payroll side is followed for the first batch and its first employee,
\* who stays Active; the master vault, which only counts, is left out.
\* Amounts and rates are in the units of the pool aggregates and within
\* their width; balances are the lamports above the rent reserve.
BATCH_KEY == Pubkey(200, 100)
OTHER_BATCH_KEY == Pubkey(201, 100)

\* u64::checked_mul and u64::saturating_mul at the modelled width
checked_mul_ok(a, b) == a * b <= U64_MAX
saturating_mul(a, b) == IF a * b <= U64_MAX THEN a * b ELSE U64_MAX

CreateBatch(owner) ==
    /\ ~batch.exists
    /\ batch' = [exists |-> TRUE, owner |-> owner, total_budget |-> 0, total_paid |-> 0]
    /\ last' = Outcome("create_batch", "Ok", NoIx0, <<>>)
    /\ UNCHANGED <<employee, batch_vault, receipts>>
    /\ UNCHANGED <<accounts, clock, tally, funded>>

\* The employee PDA is created (init) after the constraints on the batch.
add_employee_err(owner, salary_rate) ==
    IF ~batch.exists THEN "AccountNotInitialized"
    ELSE IF batch.owner # owner THEN "Unauthorized"
    ELSE IF ~(salary_rate > 0) THEN "InvalidSalaryRate"
    ELSE "Ok"

AddEmployee(owner, employee_wallet, salary_rate) ==
    LET err == add_employee_err(owner, salary_rate) IN
    /\ ~employee.exists
    /\ last' = Outcome("add_employee", err, NoIx0, <<>>)
    /\ IF err = "Ok"
       THEN employee' = [exists |-> TRUE, batch |-> BATCH_KEY,
                         wallet |-> employee_wallet, salary_rate |-> salary_rate,
                         last_claimed_at |-> now, total_claimed |-> 0,
                         status |-> "Active"]
       ELSE UNCHANGED employee
    /\ UNCHANGED <<batch, batch_vault, receipts>>
    /\ UNCHANGED <<accounts, clock, tally, funded>>

fund_batch_err(funder_lamports, amount) ==
    IF ~batch.exists THEN "AccountNotInitialized"
    ELSE IF ~(amount > 0) THEN "InvalidAmount"
    ELSE IF funder_lamports < amount THEN "InsufficientLamports"
    ELSE IF ~checked_add_ok(batch.total_budget, amount) THEN "Overflow"
    ELSE "Ok"

FundBatch(funder_lamports, amount) ==
    LET err == fund_batch_err(funder_lamports, amount) IN
    /\ last' = Outcome("fund_batch", err, NoIx0, <<>>)
    /\ IF err = "Ok"
       THEN /\ batch_vault' = batch_vault + amount
            /\ batch' = [batch EXCEPT !.total_budget = @ + amount]
       ELSE UNCHANGED <<batch, batch_vault>>
    /\ UNCHANGED <<employee, receipts>>
    /\ UNCHANGED <<accounts, clock, tally, funded>>

\* let elapsed = now.checked_sub(employee.last_claimed_at)... as u64: the
\* clock never runs behind last_claimed_at, which was read from it.
elapsed == now - employee.last_claimed_at

\* let accrued = employee.salary_rate.checked_mul(elapsed)
accrued == employee.salary_rate * elapsed

\* let claim_amount = accrued.min(available)
claim_amount == IF accrued <= batch_vault THEN accrued ELSE batch_vault

claim_salary_err(recipient) ==
    IF ~batch.exists \/ ~employee.exists THEN "AccountNotInitialized"
    ELSE IF employee.wallet # recipient THEN "Unauthorized"
    ELSE IF employee.batch # BATCH_KEY THEN "Unauthorized"
    ELSE IF employee.status # "Active" THEN "EmployeeNotActive"
    ELSE IF ~checked_mul_ok(employee.salary_rate, elapsed) THEN "Overflow"
    ELSE IF ~(accrued > 0) THEN "NoSalaryToClaim"
    ELSE IF ~(claim_amount > 0) THEN "InsufficientFunds"
    ELSE IF ~checked_add_ok(employee.total_claimed, claim_amount) THEN "Overflow"
    ELSE IF ~checked_add_ok(batch.total_paid, claim_amount) THEN "Overflow"
    ELSE "Ok"

ClaimSalary(recipient) ==
    LET err == claim_salary_err(recipient) IN
    /\ last' = Outcome("claim_salary", err, NoIx0, <<>>)
    /\ IF err = "Ok"
       THEN /\ batch_vault' = batch_vault - claim_amount
            /\ employee' = [employee EXCEPT !.last_claimed_at = now,
                                            !.total_claimed = @ + claim_amount]
            /\ batch' = [batch EXCEPT !.total_paid = @ + claim_amount]
       ELSE UNCHANGED <<batch, employee, batch_vault>>
    /\ UNCHANGED receipts
    /\ UNCHANGED <<accounts, clock, tally, funded>>

\* Pubkey::to_bytes and i64::to_le_bytes (of a time that is not negative)
to_bytes(key) ==
    [i \in 1..32 |-> IF i = 1 THEN first_byte(key)
                     ELSE IF i = 32 THEN last_byte(key) ELSE 0]
i64_to_le_bytes(t) == ToU64(t)

\* employee || batch || timestamp || amount || secret
receipt_preimage(employee_wallet, batch_key, timestamp, amount, secret) ==
    to_bytes(employee_wallet) \o to_bytes(batch_key) \o i64_to_le_bytes(timestamp)
        \o to_le_bytes(amount) \o bytes32(secret)

\* The arguments a receipt commitment is computed from: a wallet, the batch
\* or another one, a time the clock reaches, an amount within the width and
\* a secret.
VerifyBatchKeys == {BATCH_KEY, OTHER_BATCH_KEY}
VerifyTimes == 0..MaxSeconds
VerifyAmounts == 0..U64_MAX
ReceiptSecrets == {"sh1", "sh2"}

\* hash(&preimage).to_bytes(), computed once for every set of arguments.
ReceiptCommitmentTable ==
    [w \in Keys |-> [b \in VerifyBatchKeys |-> [t \in VerifyTimes |->
        [a \in VerifyAmounts |-> [secret \in ReceiptSecrets |->
            hash(receipt_preimage(w, b, t, a, secret))]]]]]

receipt_commitment(employee_wallet, batch_key, timestamp, amount, secret) ==
    ReceiptCommitmentTable[employee_wallet][batch_key][timestamp][amount][secret]

\* let claimed_amount = employee.salary_rate.saturating_mul(elapsed.max(1))
claimed_amount ==
    saturating_mul(employee.salary_rate, IF elapsed >= 1 THEN elapsed ELSE 1)

\* The receipt PDA, whose seeds end with employee.total_claimed, is created
\* (init) after the constraints on the employee and the batch.
create_receipt_err(employee_signer) ==
    IF ~batch.exists \/ ~employee.exists THEN "AccountNotInitialized"
    ELSE IF employee.wallet # employee_signer THEN "Unauthorized"
    ELSE IF employee.batch # BATCH_KEY THEN "Unauthorized"
    ELSE IF employee.total_claimed \in DOMAIN receipts THEN "AccountAlreadyInUse"
    ELSE "Ok"

CreateReceipt(employee_signer, receipt_secret) ==
    LET err == create_receipt_err(employee_signer) IN
    /\ last' = Outcome("create_receipt", err, NoIx0, <<>>)
    /\ IF err = "Ok"
       THEN receipts' =
               (employee.total_claimed :>
                   [employee |-> employee.wallet,
                    batch |-> BATCH_KEY,
                    employer |-> batch.owner,
                    commitment |-> receipt_commitment(employee.wallet, BATCH_KEY, now,
                                                      claimed_amount, receipt_secret),
                    timestamp |-> now,
                    receipt_index |-> employee.total_claimed]) @@ receipts
       ELSE UNCHANGED receipts
    /\ UNCHANGED <<batch, employee, batch_vault>>
    /\ UNCHANGED <<accounts, clock, tally, funded>>

\* verify without the comparison of the recomputed commitment.
verify_receipt_err_unproved(receipt, employee_wallet, batch_key, timestamp, amount, secret) ==
    IF receipt \notin DOMAIN receipts THEN "AccountNotInitialized"
    ELSE IF ~(receipts[receipt].employee = employee_wallet) THEN "ReceiptEmployeeMismatch"
    ELSE IF ~(receipts[receipt].batch = batch_key) THEN "ReceiptBatchMismatch"
    ELSE IF ~(receipts[receipt].timestamp = timestamp) THEN "ReceiptTimestampMismatch"
    ELSE "Ok"

\* receipt is the receipt_index of the PaymentReceipt account passed.
verify_receipt_err(receipt, employee_wallet, batch_key, timestamp, amount, secret) ==
    IF receipt \notin DOMAIN receipts THEN "AccountNotInitialized"
    ELSE IF ~(receipt_commitment(employee_wallet, batch_key, timestamp, amount, secret)
                 = receipts[receipt].commitment) THEN "InvalidReceiptProof"
    ELSE IF ~(receipts[receipt].employee = employee_wallet) THEN "ReceiptEmployeeMismatch"
    ELSE IF ~(receipts[receipt].batch = batch_key) THEN "ReceiptBatchMismatch"
    ELSE IF ~(receipts[receipt].timestamp = timestamp) THEN "ReceiptTimestampMismatch"
    ELSE "Ok"

VerifyReceipt(receipt, employee_wallet, batch_key, timestamp, amount, secret) ==
    LET err == verify_receipt_err(receipt, employee_wallet, batch_key, timestamp,
                                  amount, secret) IN
    /\ last' = Outcome("verify_receipt", err, NoIx0, <<>>)
    /\ UNCHANGED payroll
    /\ UNCHANGED <<accounts, clock, tally, funded>>

\* A blind verification that also wants the receipt's time in the range.
verify_receipt_blind_err_ranged(receipt, employee_wallet, range_start, range_end) ==
    IF receipt \notin DOMAIN receipts THEN "AccountNotInitialized"
    ELSE IF ~(receipts[receipt].employee = employee_wallet) THEN "ReceiptEmployeeMismatch"
    ELSE IF ~(/\ range_start <= receipts[receipt].timestamp
              /\ receipts[receipt].timestamp <= range_end)
         THEN "ReceiptTimestampMismatch"
    ELSE "Ok"

verify_receipt_blind_err(receipt, employee_wallet, range_start, range_end) ==
    IF receipt \notin DOMAIN receipts THEN "AccountNotInitialized"
    ELSE IF ~(receipts[receipt].employee = employee_wallet) THEN "ReceiptEmployeeMismatch"
    ELSE "Ok"

VerifyReceiptBlind(receipt, employee_wallet, range_start, range_end) ==
    LET err == verify_receipt_blind_err(receipt, employee_wallet, range_start, range_end) IN
    /\ last' = Outcome("verify_receipt_blind", err, NoIx0, <<>>)
    /\ UNCHANGED payroll
    /\ UNCHANGED <<accounts, clock, tally, funded>>

\* ------------------------------------------------- the order of the steps
\* Each instruction as the sequence of its checks and effects, in the order
\* in which the account validation and the handler perform them.  A check
\* carries the error it raises and whether it passes in the current state;
\* none of the checks reads anything an earlier effect of the same
\* instruction has written.
Check(name, ok) == [kind |-> "check", name |-> name, ok |-> ok]
Effect(name) == [kind |-> "effect", name |-> name, ok |-> TRUE]

\* The account read by a check, or a blank one where it does not exist (the
\* check for its existence has failed before).
PendingAt(pda) ==
    IF pda \in DOMAIN pending THEN pending[pda]
    ELSE [recipient |-> <<>>, amount |-> 0, requested_at |-> 0,
          available_at |-> 0, claimed |-> FALSE]

CommitmentAt(cpda) ==
    IF cpda \in DOMAIN commitments THEN commitments[cpda]
    ELSE [commitment |-> <<>>, amount |-> 0, timestamp |-> 0, spent |-> FALSE]

\* The instruction stops at its first failing check.
FirstFailure(steps) ==
    IF \E i \in 1..Len(steps) : ~steps[i].ok
    THEN CHOOSE i \in 1..Len(steps) :
            ~steps[i].ok /\ \A j \in 1..(i - 1) : steps[j].ok
    ELSE 0

Executed(steps) ==
    IF FirstFailure(steps) = 0 THEN steps ELSE SubSeq(steps, 1, FirstFailure(steps))

Result(steps) ==
    IF FirstFailure(steps) = 0 THEN "Ok" ELSE steps[FirstFailure(steps)].name

init_privacy_pool_steps ==
    <<Check("AccountAlreadyInUse", ~pool.exists),
      Effect("create pool"),
      Effect("pool fields")>>

pool_deposit_steps(depositor_lamports, amount) ==
    <<Check("AccountNotInitialized", pool.exists),
      Check("InvalidAmount", amount > 0),
      Check("InsufficientLamports", depositor_lamports >= amount),
      Effect("transfer depositor to pool_vault"),
      Check("Overflow", checked_add_ok(pool.total_deposited, amount)),
      Effect("pool.total_deposited"),
      Check("Overflow", checked_add_ok(pool.deposit_count, 1)),
      Effect("pool.deposit_count")>>

request_withdraw_steps(recipient, amount) ==
    <<Check("AccountNotInitialized", pool.exists),
      Check("AccountAlreadyInUse", recipient \notin DOMAIN pending),
      Effect("create pending_withdraw"),
      Check("InvalidWithdrawAmount", amount \in ALLOWED_AMOUNTS),
      Check("InsufficientPoolFunds", amount <= pool_vault),
      Effect("pending_withdraw fields")>>

claim_withdraw_steps(recipient) ==
    <<Check("AccountNotInitialized", pool.exists),
      Check("AccountNotInitialized", recipient \in DOMAIN pending),
      Check("Unauthorized", PendingAt(recipient).recipient = recipient),
      Check("AlreadyClaimed", ~PendingAt(recipient).claimed),
      Check("WithdrawNotReady", now >= PendingAt(recipient).available_at),
      Check("InsufficientLamports", pool_vault >= PendingAt(recipient).amount),
      Effect("transfer pool_vault to recipient"),
      Effect("pending_withdraw.claimed"),
      Check("Overflow", checked_add_ok(pool.total_withdrawn, PendingAt(recipient).amount)),
      Effect("pool.total_withdrawn"),
      Check("Overflow", checked_add_ok(pool.withdraw_count, 1)),
      Effect("pool.withdraw_count")>>

claim_withdraw_relayed_steps(recipient, pda, ix0) ==
    <<Check("AccountNotInitialized", pool.exists),
      Check("AccountNotInitialized", pda \in DOMAIN pending),
      Check("Unauthorized", PendingAt(pda).recipient = recipient),
      Check("AlreadyClaimed", ~PendingAt(pda).claimed),
      Check("WithdrawNotReady", now >= PendingAt(pda).available_at),
      Check("SignerMismatch", recipient = PendingAt(pda).recipient),
      Check("InvalidSignatureInstruction", ix0.program_id = ED25519_PROGRAM),
      Check("InsufficientLamports", pool_vault >= PendingAt(pda).amount),
      Effect("transfer pool_vault to recipient"),
      Effect("pending_withdraw.claimed"),
      Check("Overflow", checked_add_ok(pool.total_withdrawn, PendingAt(pda).amount)),
      Effect("pool.total_withdrawn"),
      Check("Overflow", checked_add_ok(pool.withdraw_count, 1)),
      Effect("pool.withdraw_count")>>

init_churn_vault_steps(vault_index) ==
    <<Check("AccountNotInitialized", pool.exists),
      Check("AccountAlreadyInUse", vault_index \notin DOMAIN churn_state),
      Effect("create churn_state"),
      Check("InvalidChurnIndex", vault_index < NUM_CHURN_VAULTS),
      Effect("churn_state fields")>>

pool_churn_steps(vault_index, amount) ==
    <<Check("AccountNotInitialized", pool.exists),
      Check("AccountNotInitialized", vault_index \in DOMAIN churn_state),
      Check("InvalidAmount", amount > 0),
      Check("InsufficientPoolFunds", amount <= pool_vault),
      Effect("transfer pool_vault to churn_vault"),
      Effect("churn_state.total_churned"),
      Effect("churn_state.churn_count"),
      Effect("pool.churn_count")>>

pool_unchurn_steps(vault_index, amount) ==
    <<Check("AccountNotInitialized", pool.exists),
      Check("AccountNotInitialized", vault_index \in DOMAIN churn_state),
      Check("InvalidAmount", amount > 0),
      Check("InsufficientChurnFunds", amount <= churn_vault[vault_index]),
      Effect("transfer churn_vault to pool_vault")>>

private_deposit_steps(depositor_lamports, commitment, amount) ==
    <<Check("AccountNotInitialized", pool.exists),
      Check("AccountAlreadyInUse", commitment \notin DOMAIN commitments),
      Effect("create commitment_pda"),
      Check("InvalidWithdrawAmount", amount \in ALLOWED_AMOUNTS),
      Check("InsufficientLamports", depositor_lamports >= amount),
      Effect("transfer depositor to pool_vault"),
      Effect("commitment_pda fields"),
      Check("Overflow", checked_add_ok(pool.total_deposited, amount)),
      Effect("pool.total_deposited"),
      Check("Overflow", checked_add_ok(pool.deposit_count, 1)),
      Effect("pool.deposit_count")>>

\* private_withdraw that compares the stored amount after it has marked the
\* commitment spent.
private_withdraw_steps_amount_late(nullifier, secret_hash, amount, cpda) ==
    <<Check("AccountNotInitialized", pool.exists),
      Check("AccountNotInitialized", cpda \in DOMAIN commitments),
      Check("AccountAlreadyInUse", nullifier \notin DOMAIN nullifiers),
      Effect("create nullifier_pda"),
      Check("InvalidWithdrawAmount", amount \in ALLOWED_AMOUNTS),
      Check("InvalidCommitmentProof",
            compute_commitment(secret_hash, nullifier, amount) = CommitmentAt(cpda).commitment),
      Check("NullifierAlreadyUsed", ~CommitmentAt(cpda).spent),
      Effect("commitment_pda.spent"),
      Check("InvalidAmount", CommitmentAt(cpda).amount = amount),
      Effect("nullifier_pda fields"),
      Check("InsufficientLamports", pool_vault >= amount),
      Effect("transfer pool_vault to recipient"),
      Check("Overflow", checked_add_ok(pool.total_withdrawn, amount)),
      Effect("pool.total_withdrawn"),
      Check("Overflow", checked_add_ok(pool.withdraw_count, 1)),
      Effect("pool.withdraw_count")>>

private_withdraw_steps(nullifier, secret_hash, amount, cpda) ==
    <<Check("AccountNotInitialized", pool.exists),
      Check("AccountNotInitialized", cpda \in DOMAIN commitments),
      Check("AccountAlreadyInUse", nullifier \notin DOMAIN nullifiers),
      Effect("create nullifier_pda"),
      Check("InvalidWithdrawAmount", amount \in ALLOWED_AMOUNTS),
      Check("InvalidCommitmentProof",
            compute_commitment(secret_hash, nullifier, amount) = CommitmentAt(cpda).commitment),
      Check("NullifierAlreadyUsed", ~CommitmentAt(cpda).spent),
      Check("InvalidAmount", CommitmentAt(cpda).amount = amount),
      Effect("commitment_pda.spent"),
      Effect("nullifier_pda fields"),
      Check("InsufficientLamports", pool_vault >= amount),
      Effect("transfer pool_vault to recipient"),
      Check("Overflow", checked_add_ok(pool.total_withdrawn, amount)),
      Effect("pool.total_withdrawn"),
      Check("Overflow", checked_add_ok(pool.withdraw_count, 1)),
      Effect("pool.withdraw_count")>>

private_withdraw_relayed_steps(nullifier, secret_hash, amount, cpda, ix0) ==
    <<Check("AccountNotInitialized", pool.exists),
      Check("AccountNotInitialized", cpda \in DOMAIN commitments),
      Check("AccountAlreadyInUse", nullifier \notin DOMAIN nullifiers),
      Effect("create nullifier_pda"),
      Check("InvalidWithdrawAmount", amount \in ALLOWED_AMOUNTS),
      Check("InvalidSignatureInstruction", ix0.program_id = ED25519_PROGRAM),
      Check("InvalidCommitmentProof",
            compute_commitment(secret_hash, nullifier, amount) = CommitmentAt(cpda).commitment),
      Check("NullifierAlreadyUsed", ~CommitmentAt(cpda).spent),
      Check("InvalidAmount", CommitmentAt(cpda).amount = amount),
      Effect("commitment_pda.spent"),
      Effect("nullifier_pda fields"),
      Check("InsufficientLamports", pool_vault >= amount),
      Effect("transfer pool_vault to recipient"),
      Check("Overflow", checked_add_ok(pool.total_withdrawn, amount)),
      Effect("pool.total_withdrawn"),
      Check("Overflow", checked_add_ok(pool.withdraw_count, 1)),
      Effect("pool.withdraw_count")>>

\* --------------------------------------------------------- specifications
\* First instructions offered to the commitment path, which reads the
\* program id only.
LedgerIx0Inputs ==
    {[program_id |-> ED25519_PROGRAM, signer |-> KeyOf(1)],
     [program_id |-> OTHER_PROGRAM, signer |-> <<>>]}

\* Amounts offered to the commitment path.
LedgerAmounts == {2} \cup ALLOWED_AMOUNTS

\* The commitment / nullifier ledger.
NextLedger ==
    \/ InitPrivacyPool
    \/ \E f \in DepositorFunds, c \in CommitmentInputs, a \in LedgerAmounts :
          PrivateDeposit(f, c, a)
    \/ \E n \in Nullifiers, sh \in SecretHashes, a \in LedgerAmounts, k \in Keys :
          \E c \in CommitmentPdaInputs(n, sh, a) : PrivateWithdraw(n, sh, a, c, k)
    \/ \E n \in Nullifiers, sh \in SecretHashes, a \in LedgerAmounts, k \in Keys,
          ix0 \in LedgerIx0Inputs :
          \E c \in CommitmentPdaInputs(n, sh, a) :
             PrivateWithdrawRelayed(n, sh, a, c, k, ix0)

SpecLedger == Init /\ [][NextLedger]_vars

\* The delayed withdrawal scheduler: deposits, requests, the three claim
\* paths and the clock.
NextSched ==
    \/ InitPrivacyPool
    \/ \E f \in DepositorFunds, a \in AmountInputs : PoolDeposit(f, a)
    \/ \E k \in Keys, a \in AmountInputs : RequestWithdraw(k, a)
    \/ \E k \in Keys : ClaimWithdraw(k)
    \/ \E k \in Keys, p \in Keys, ix0 \in Ix0Inputs : ClaimWithdrawRelayed(k, p, ix0)
    \/ \E b \in BatchInputs : BatchClaimWithdraw(b)
    \/ \E t \in ClockTargets : AdvanceClock(t)

SpecSched == Init /\ [][NextSched]_vars

\* Every instruction of the pool together, on the amounts 1 and 5, one
\* recipient of delayed withdrawals, one secret, one nullifier and the first
\* churn vault.
PoolAmounts == {1, 5}
PoolCommitments == {compute_commitment("sh1", "n1", a) : a \in PoolAmounts}
PoolBatches == {<<Wallet(KeyOf(1)), PendingPda(KeyOf(1))>>,
                <<Wallet(KeyOf(1)), PendingPda(KeyOf(1)),
                  Wallet(KeyOf(1)), PendingPda(KeyOf(1))>>}
PoolIx0 == [program_id |-> ED25519_PROGRAM, signer |-> KeyOf(1)]

Next ==
    \/ InitPrivacyPool
    \/ \E a \in PoolAmounts : PoolDeposit(U64_MAX, a)
    \/ \E c \in PoolCommitments, a \in PoolAmounts : PrivateDeposit(U64_MAX, c, a)
    \/ \E a \in PoolAmounts : RequestWithdraw(KeyOf(1), a)
    \/ ClaimWithdraw(KeyOf(1))
    \/ ClaimWithdrawRelayed(KeyOf(1), KeyOf(1), PoolIx0)
    \/ \E b \in PoolBatches : BatchClaimWithdraw(b)
    \/ \E a \in PoolAmounts : \E c \in CommitmentPdaInputs("n1", "sh1", a) :
          PrivateWithdraw("n1", "sh1", a, c, KeyOf(1))
    \/ \E a \in PoolAmounts : \E c \in CommitmentPdaInputs("n1", "sh1", a) :
          PrivateWithdrawRelayed("n1", "sh1", a, c, KeyOf(2), PoolIx0)
    \/ InitChurnVault(0)
    \/ \E a \in PoolAmounts : ChurnsLeft(0, a) /\ PoolChurn(0, a)
    \/ \E a \in PoolAmounts : PoolUnchurn(0, a)
    \/ \E t \in ClockTargets : AdvanceClock(t)

Spec == Init /\ [][Next]_vars

\* Requests racing for the commitment ledger while the delayed withdrawal
\* path draws on the same vault: deposits and withdrawals of the amount 1 on
\* two nullifiers and two secrets, and delayed withdrawals of one recipient.
RaceAmount == 1
RaceRequests == {<<n, sh>> : n \in Nullifiers, sh \in SecretHashes}
RaceCommitment(r) == compute_commitment(r[2], r[1], RaceAmount)
RaceCommitments == {RaceCommitment(r) : r \in RaceRequests}

NextRace ==
    \/ InitPrivacyPool
    \/ \E c \in RaceCommitments : PrivateDeposit(U64_MAX, c, RaceAmount)
    \/ \E r \in RaceRequests :
          PrivateWithdraw(r[1], r[2], RaceAmount, RaceCommitment(r), KeyOf(1))
    \/ RequestWithdraw(KeyOf(2), RaceAmount)
    \/ ClaimWithdraw(KeyOf(2))
    \/ \E t \in ClockTargets : AdvanceClock(t)

SpecRace == Init /\ [][NextRace]_vars

\* The two relayed instructions with and without a first instruction of the
\* ed25519 program, on pending withdrawals and commitments of the amount 1.
RelayAmount == 1
RelayCommitments ==
    {compute_commitment(sh, "n1", RelayAmount) : sh \in SecretHashes}

NextRelay ==
    \/ InitPrivacyPool
    \/ PoolDeposit(U64_MAX, RelayAmount)
    \/ \E c \in RelayCommitments : PrivateDeposit(U64_MAX, c, RelayAmount)
    \/ \E k \in Keys : RequestWithdraw(k, RelayAmount)
    \/ \E k \in Keys, p \in Keys, ix0 \in Ix0Inputs : ClaimWithdrawRelayed(k, p, ix0)
    \/ \E sh \in SecretHashes, a \in {RelayAmount, 2}, k \in Keys, ix0 \in Ix0Inputs :
          \E c \in CommitmentPdaInputs("n1", sh, a) :
             PrivateWithdrawRelayed("n1", sh, a, c, k, ix0)
    \/ \E t \in ClockTargets : AdvanceClock(t)

SpecRelay == Init /\ [][NextRelay]_vars

\* The states in which the order of an instruction's steps shows: counters
\* near their width, a vault emptied by a churn or a delayed withdrawal under
\* unspent commitments, commitments stored with another amount than the one
\* they hash, claimed and unclaimed pending withdrawals.
NextSteps ==
    \/ InitPrivacyPool
    \/ PoolDeposit(U64_MAX, 5)
    \/ \E c \in PoolCommitments, a \in PoolAmounts : PrivateDeposit(U64_MAX, c, a)
    \/ RequestWithdraw(KeyOf(1), 1)
    \/ ClaimWithdraw(KeyOf(1))
    \/ \E c \in DOMAIN commitments : PrivateWithdraw("n1", "sh1", 1, c, KeyOf(1))
    \/ InitChurnVault(0)
    \/ ChurnsLeft(0, 1) /\ PoolChurn(0, 1)
    \/ PoolUnchurn(0, 1)
    \/ \E t \in ClockTargets : AdvanceClock(t)

SpecSteps == Init /\ [][NextSteps]_vars

\* The life of the pending withdrawals of two recipients: requests of the
\* amounts 1 and 5 from a funded pool, the three claim paths and the clock.
NextPending ==
    \/ InitPrivacyPool
    \/ PoolDeposit(U64_MAX, 5)
    \/ \E k \in Keys, a \in PoolAmounts : RequestWithdraw(k, a)
    \/ \E k \in Keys : ClaimWithdraw(k)
    \/ \E k \in Keys, p \in Keys : ClaimWithdrawRelayed(k, p, PoolIx0)
    \/ \E b \in PoolBatches : BatchClaimWithdraw(b)
    \/ \E t \in ClockTargets : AdvanceClock(t)

SpecPending == Init /\ [][NextPending]_vars

\* The churn mixer on its own: a deposit of 10, the vault indices a u8
\* argument can name (the three slots, the first one past them and the
\* largest), churns and unchurns of 0 and of 5 on the first two vaults, next
\* to one pending withdrawal and one commitment of 1 that is deposited and
\* withdrawn.  The churn counters run up to their maximum; the
\* second vault takes MaxChurns churns.
ChurnIndexInputs == {0, 1, 2, 3, 255}
ChurnAmounts == {0, 5}
ChurnVaults == {0, 1}
ChurnCommitment == compute_commitment("sh1", "n1", 1)

NextChurn ==
    \/ InitPrivacyPool
    \/ PoolDeposit(U64_MAX, 10)
    \/ PrivateDeposit(U64_MAX, ChurnCommitment, 1)
    \/ RequestWithdraw(KeyOf(1), 1)
    \/ PrivateWithdraw("n1", "sh1", 1, ChurnCommitment, KeyOf(2))
    \/ \E i \in ChurnIndexInputs : InitChurnVault(i)
    \/ \E a \in ChurnAmounts : PoolChurn(0, a)
    \/ \E a \in ChurnAmounts :
          /\ pool_churn_err(1, a) = "Ok" => churn_state[1].churn_count < MaxChurns
          /\ PoolChurn(1, a)
    \/ \E i \in ChurnVaults, a \in ChurnAmounts : PoolUnchurn(i, a)

SpecChurn == Init /\ [][NextChurn]_vars

\* The pool vault is an account of the system program: anyone can transfer
\* lamports to its address without calling the pool, which records nothing.
\* The transfers followed here give back at most what has left the vault, so
\* that its balance stays within the width of the aggregates.
ExternalTransfer(amount) ==
    /\ amount > 0
    /\ pool_vault + amount <= pool.total_deposited
    /\ pool_vault' = pool_vault + amount
    /\ UNCHANGED <<pool, churn_state, churn_vault, pending, commitments,
                   nullifiers, clock, last, tally, funded>>
    /\ UNCHANGED payroll

\* The aggregates at their maximum: deposits and withdrawals of 5 and 10 by
\* every path, with lamports arriving at the vault from outside, so that
\* total_withdrawn can come as close to the maximum as total_deposited.
OverflowAmounts == {5, 10}
OverflowCommitment == compute_commitment("sh1", "n1", 5)

NextOverflow ==
    \/ InitPrivacyPool
    \/ \E a \in OverflowAmounts : PoolDeposit(U64_MAX, a)
    \/ PrivateDeposit(U64_MAX, OverflowCommitment, 5)
    \/ \E k \in Keys, a \in OverflowAmounts : RequestWithdraw(k, a)
    \/ \E k \in Keys : ClaimWithdraw(k)
    \/ \E k \in Keys, p \in Keys : ClaimWithdrawRelayed(k, p, PoolIx0)
    \/ \E b \in PoolBatches : BatchClaimWithdraw(b)
    \/ PrivateWithdraw("n1", "sh1", 5, OverflowCommitment, KeyOf(1))
    \/ PrivateWithdrawRelayed("n1", "sh1", 5, OverflowCommitment, KeyOf(1), PoolIx0)
    \/ ExternalTransfer(5)
    \/ \E t \in ClockTargets : AdvanceClock(t)

SpecOverflow == Init /\ [][NextOverflow]_vars

\* Payroll and receipts: one batch, one employee paid 1 or 5 a second, a
\* vault funded by 5 at a time, claims and receipts (made with the first
\* secret) over MaxSeconds seconds, and verifications with a right or wrong
\* payee, batch, time, amount and secret.  The properties range over the
\* larger Verify sets.
SalaryRates == {0, 1, 5}

NextReceipt ==
    \/ CreateBatch(KeyOf(2))
    \/ \E r \in SalaryRates : AddEmployee(KeyOf(2), KeyOf(1), r)
    \/ FundBatch(U64_MAX, 5)
    \/ \E k \in Keys : ClaimSalary(k)
    \/ \E k \in Keys : CreateReceipt(k, "sh1")
    \/ \E receipt \in DOMAIN receipts, w \in Keys, b \in VerifyBatchKeys,
          t \in {0, now}, a \in {1, 5}, secret \in ReceiptSecrets :
          VerifyReceipt(receipt, w, b, t, a, secret)
    \/ \E receipt \in DOMAIN receipts, w \in Keys, range_start, range_end \in {0, now} :
          VerifyReceiptBlind(receipt, w, range_start, range_end)
    \/ now < MaxSeconds /\ AdvanceClock(now + 1)

SpecReceipt == Init /\ [][NextReceipt]_vars

\* A batch short of funds: a deposit of 10, a request of 10 by the first
\* recipient and of 5 by the second, a churn of 5 that leaves the pool vault
\* with less than the first request, the clock, single claims and batches.
NextBatch ==
    \/ InitPrivacyPool
    \/ PoolDeposit(U64_MAX, 10)
    \/ RequestWithdraw(KeyOf(1), 10)
    \/ RequestWithdraw(KeyOf(2), 5)
    \/ InitChurnVault(0)
    \/ ChurnsLeft(0, 5) /\ PoolChurn(0, 5)
    \/ PoolUnchurn(0, 5)
    \/ \E k \in Keys : ClaimWithdraw(k)
    \/ \E b \in BatchInputs : BatchClaimWithdraw(b)
    \/ \E t \in ClockTargets : AdvanceClock(t)

SpecBatch == Init /\ [][NextBatch]_vars

\* The delay computation on its own: a funded pool at an arbitrary slot,
\* and withdrawal requests from recipients whose keys differ in their first
\* and last bytes.  A negative slot value v stands for 2^64 + v.
SlotU64(v) ==
    IF v >= 0 THEN ToU64(v) ELSE [i \in 1..8 |-> 255 - ToU64(-v - 1)[i]]

SlotInputs == {0, 1, 2, 269, 270, 1000, 1234567, -1, -2, -255, -256, -300, -511}
KeyByteInputs == {0, 1, 128, 255}
DelayKeys == {Pubkey(b0, b31) : b0 \in KeyByteInputs, b31 \in KeyByteInputs}

InitDelay ==
    /\ pool = [exists |-> TRUE, total_deposited |-> 1, total_withdrawn |-> 0,
               deposit_count |-> 1, withdraw_count |-> 0, churn_count |-> 0]
    /\ pool_vault = 1
    /\ churn_state = EmptyMap
    /\ churn_vault = [i \in VaultIndices |-> 0]
    /\ pending = EmptyMap
    /\ commitments = EmptyMap
    /\ nullifiers = EmptyMap
    /\ \E v \in SlotInputs :
          clock = [slot |-> SlotU64(v), unix_timestamp |-> 0]
    /\ last = [op |-> "pool_deposit", ix0 |-> NoIx0, moved |-> <<>>]
    /\ tally = EmptyMap
    /\ funded = EmptyMap
    /\ NoPayroll

NextDelay ==
    \E k \in DelayKeys, a \in ALLOWED_AMOUNTS :
       /\ Cardinality(DOMAIN pending) < MaxRequests
       /\ RequestWithdraw(k, a)

SpecDelay == InitDelay /\ [][NextDelay]_vars

\* ------------------------------------------------------------- properties
\* The commitment records whose preimage carries nullifier n.
RecordsOf(n) ==
    {c \in DOMAIN commitments :
        \E sh \in SecretHashes, a \in LedgerAmounts : c = compute_commitment(sh, n, a)}

\* C1 (double-spend prevention): for every nullifier, at most one private
\* withdrawal, direct or relayed, ever succeeds, so at most one payout is made
\* per nullifier; once its nullifier record exists every further withdrawal
\* with that nullifier fails, against whichever commitment record.
DoubleSpendPrevention ==
    \A n \in Nullifiers :
       /\ Count(tally, <<"nullifier", n>>) <= 1
       /\ n \in DOMAIN nullifiers =>
             \A sh \in SecretHashes, a \in LedgerAmounts, ix0 \in LedgerIx0Inputs :
                \A c \in CommitmentPdaInputs(n, sh, a) :
                   /\ private_withdraw_err(n, sh, a, c) # "Ok"
                   /\ private_withdraw_relayed_err(n, sh, a, c, ix0) # "Ok"

\* A nullifier has been used for a withdrawal while a second, unspent
\* commitment record with the same nullifier is still in the ledger.
DoubleSpendWitness ==
    \E n \in Nullifiers :
       /\ Count(tally, <<"nullifier", n>>) = 1
       /\ \E c \in RecordsOf(n) : ~commitments[c].spent /\ commitments[c].amount <= pool_vault

\* C2 (commitment uniqueness): for every commitment, at most one
\* private_deposit ever succeeds; once its record exists a further deposit of
\* the same commitment fails, the stored record keeps the amount of the first
\* deposit and no further funds are moved in for it.
CommitmentUniqueness ==
    \A c \in CommitmentInputs :
       /\ Count(tally, <<"commitment", c>>) <= 1
       /\ c \in DOMAIN commitments =>
             /\ \A f \in DepositorFunds, a \in LedgerAmounts :
                   private_deposit_err(f, c, a) = "AccountAlreadyInUse"
             /\ commitments[c].amount = Count(funded, c)

\* A commitment is recorded and the deposit cap still leaves room for the
\* next deposit, which is offered the same commitment again.
CommitmentUniquenessWitness ==
    \E c \in DOMAIN commitments :
       /\ pool.deposit_count < MaxDeposits
       /\ last.op = "private_deposit"
       /\ private_deposit_err(U64_MAX, c, commitments[c].amount) = "AccountAlreadyInUse"

AmountIntegrity ==
    last.op \in {"private_withdraw", "private_withdraw_relayed"} =>
       /\ Len(last.moved) = 1
       /\ LET m == last.moved[1]
              c == m[3][2]
          IN /\ c \in DOMAIN commitments
             /\ commitments[c].spent
             /\ m[2] = commitments[c].amount
             /\ m[2] = Count(funded, c)

\* A relayed private withdrawal of 5 units has just been paid out.
AmountIntegrityWitness ==
    /\ last.op = "private_withdraw_relayed"
    /\ last.moved[1][2] = 5

\* C5 (relay authorization): a relayed claim succeeds only if the first
\* instruction of its transaction is a signature verification by the ed25519
\* program whose declared signer is the recipient of the pending withdrawal
\* it pays; a verification declared for any other signer is rejected.
RelayAuthorization ==
    last.op = "claim_withdraw_relayed" =>
       /\ last.ix0.program_id = ED25519_PROGRAM
       /\ last.ix0.signer = pending[last.moved[1][3][2]].recipient

\* The amount of the pending withdrawal of key k once it is claimed.
ClaimedAmount(k) ==
    IF k \in DOMAIN pending /\ pending[k].claimed THEN pending[k].amount ELSE 0

\* C6 (at-most-once payout): every pending withdrawal is paid out at most
\* once over claim_withdraw, claim_withdraw_relayed and batch_claim_withdraw
\* together: it is paid exactly when it is marked claimed, what left the pool
\* is the sum of the claimed records' amounts, and the loop of a batch that
\* names a record in several pairs transfers for it at most once.
AtMostOncePayout ==
    /\ \A k \in Keys :
          /\ Count(tally, <<"pending", k>>) <= 1
          /\ Count(tally, <<"pending", k>>) = 1 <=> (k \in DOMAIN pending /\ pending[k].claimed)
    /\ pool.total_withdrawn = ClaimedAmount(KeyOf(1)) + ClaimedAmount(KeyOf(2))
    /\ \A b \in BatchInputs :
          batch_claim_err(b) = "Ok" =>
             /\ \A k \in Keys : Count(batch_result(b).paid, <<"pending", k>>) <= 1
             /\ \A i, j \in 1..Len(batch_result(b).moved) :
                   batch_result(b).moved[i][3] = batch_result(b).moved[j][3] => i = j

\* One pending withdrawal has been claimed; another is ready and unclaimed
\* while the pool vault could pay it twice.
AtMostOncePayoutWitness ==
    \E k \in DOMAIN pending, j \in DOMAIN pending :
       /\ pending[j].claimed
       /\ ~pending[k].claimed
       /\ now >= pending[k].available_at
       /\ pool_vault >= 2 * pending[k].amount

\* C7 (claim availability): at any time at or after available_at,
\* a claim_withdraw of an unclaimed pending withdrawal by its recipient
\* succeeds, whatever other parties did in between.
ClaimAvailability ==
    \A k \in DOMAIN pending :
       (~pending[k].claimed /\ now >= pending[k].available_at)
          => claim_withdraw_err(k) = "Ok"

\* C8 (time gate): no pending withdrawal is paid out while now < available_at:
\* claim_withdraw and claim_withdraw_relayed fail with WithdrawNotReady and
\* batch_claim_withdraw skips the pair, leaving the record unclaimed and
\* unpaid; a claim of a claimed record fails with AlreadyClaimed.
TimeGate ==
    \A k \in DOMAIN pending :
       /\ Count(tally, <<"pending", k>>) > 0 => now >= pending[k].available_at
       /\ (~pending[k].claimed /\ now < pending[k].available_at) =>
             /\ claim_withdraw_err(k) = "WithdrawNotReady"
             /\ \A ix0 \in Ix0Inputs :
                   claim_withdraw_relayed_err(k, k, ix0) = "WithdrawNotReady"
             /\ \A b \in BatchInputs :
                   batch_claim_err(b) = "Ok" =>
                      /\ ~batch_result(b).pend[k].claimed
                      /\ \A i \in 1..Len(batch_result(b).moved) :
                            batch_result(b).moved[i][3] # <<"pending", k>>
       /\ pending[k].claimed =>
             /\ claim_withdraw_err(k) = "AlreadyClaimed"
             /\ \A ix0 \in Ix0Inputs :
                   claim_withdraw_relayed_err(k, k, ix0) = "AlreadyClaimed"

\* One second before its release an unclaimed pending withdrawal is fully
\* funded, next to a claimed one.
TimeGateWitness ==
    \E k \in DOMAIN pending, j \in DOMAIN pending :
       /\ ~pending[k].claimed
       /\ now = pending[k].available_at - 1
       /\ pool_vault >= pending[k].amount
       /\ pending[j].claimed

\* The slot value of the clock, for the slots SlotInputs offers.
DelaySlot == CHOOSE v \in SlotInputs : SlotU64(v) = clock.slot

\* The carry out of byte i of n * ENTROPY_MULTIPLIER, for a natural number n
\* below 2^22, multiplied byte by byte from the low end.
RECURSIVE RefCarry(_, _)
RefCarry(n, i) ==
    IF i = 0 THEN 0
    ELSE (n * ENTROPY_MULTIPLIER[i] + RefCarry(n, i - 1)) \div 256

\* n * 0x5851F42D4C957F2D modulo 2^64
RefTimes(n) ==
    [i \in 1..8 |-> (n * ENTROPY_MULTIPLIER[i] + RefCarry(n, i - 1)) % 256]

\* The carry into byte i of (2^64 - 1 - a) + 1
RECURSIVE RefNegCarry(_, _)
RefNegCarry(a, i) ==
    IF i = 1 THEN 1 ELSE (255 - a[i - 1] + RefNegCarry(a, i - 1)) \div 256

\* -a modulo 2^64
RefNeg(a) == [i \in 1..8 |-> (255 - a[i] + RefNegCarry(a, i)) % 256]

\* s * 0x5851F42D4C957F2D modulo 2^64, for s standing for 2^64 + s if negative
RefProduct(s) == IF s >= 0 THEN RefTimes(s) ELSE RefNeg(RefTimes(-s))

\* 256^j modulo 270
RECURSIVE Pow256Mod270(_)
Pow256Mod270(j) == IF j = 0 THEN 1 ELSE (256 * Pow256Mod270(j - 1)) % 270

\* a modulo 270, from the residues of the powers of 256
RefMod270(a) ==
    (a[1] * Pow256Mod270(0) + a[2] * Pow256Mod270(1) + a[3] * Pow256Mod270(2)
        + a[4] * Pow256Mod270(3) + a[5] * Pow256Mod270(4) + a[6] * Pow256Mod270(5)
        + a[7] * Pow256Mod270(6) + a[8] * Pow256Mod270(7)) % 270

\* C9 (delay bound): every pending withdrawal made by request_withdraw has
\* 30 <= available_at - requested_at < 300, the delay being
\* 30 + (((slot + first key byte + last key byte) * 0x5851F42D4C957F2D
\* mod 2^64) mod 270).
DelayBound ==
    \A k \in DOMAIN pending :
       LET d == pending[k].available_at - pending[k].requested_at
           s == DelaySlot + first_byte(k) + last_byte(k)
       IN /\ 30 <= d
          /\ d < 300
          /\ d = 30 + RefMod270(RefProduct(s))

\* Requests made at slot 2^64 - 256: one by a key whose bytes carry the sum
\* past 2^64, one that drew a delay in the last 30 seconds of the range.
DelayBoundWitness ==
    /\ clock.slot = SlotU64(-256)
    /\ \E k \in DOMAIN pending : first_byte(k) + last_byte(k) > 256
    /\ \E k \in DOMAIN pending :
          pending[k].available_at - pending[k].requested_at >= 270

\* C10 (deposit amount restriction): pool_deposit rejects every
\* amount outside ALLOWED_AMOUNTS and accepts each allowed amount the
\* depositor can fund.
DepositAmountRestriction ==
    pool.exists =>
       \A f \in DepositorFunds, a \in AmountInputs :
          IF a \in ALLOWED_AMOUNTS
          THEN (f >= a /\ checked_add_ok(pool.total_deposited, a))
                  => pool_deposit_err(f, a) = "Ok"
          ELSE pool_deposit_err(f, a) # "Ok"

\* C10, amended (deposit amounts): pool_deposit rejects the amount 0 with
\* InvalidAmount and accepts every positive amount, allowed or not, that the
\* depositor can fund and that total_deposited can take; the pool then holds
\* that amount more.
DepositAnyPositiveAmount ==
    /\ pool.exists =>
          \A f \in DepositorFunds, a \in AmountInputs :
             pool_deposit_err(f, a) =
                IF a = 0 THEN "InvalidAmount"
                ELSE IF f < a THEN "InsufficientLamports"
                ELSE IF pool.total_deposited + a > U64_MAX THEN "Overflow"
                ELSE "Ok"
    /\ (last.op = "pool_deposit" /\ pool.deposit_count = 1) =>
          (pool.total_deposited \in AmountInputs \ {0} /\ pool_vault = pool.total_deposited)

\* A single deposit of 2 units, which is not an allowed amount, was accepted.
DepositAnyPositiveAmountWitness ==
    /\ last.op = "pool_deposit"
    /\ pool.deposit_count = 1
    /\ pool.total_deposited = 2
    /\ pool_vault = 2

\* ------------------------------------------------ specification of amounts
\* The four instructions that take a standardized amount, offered every
\* amount of AmountInputs, with commitments that hash each of those amounts.
AmountCommitments == {compute_commitment("sh1", "n1", a) : a \in AmountInputs}

NextAmounts ==
    \/ InitPrivacyPool
    \/ \E f \in DepositorFunds, c \in AmountCommitments, a \in AmountInputs :
          PrivateDeposit(f, c, a)
    \/ \E k \in Keys, a \in AmountInputs : RequestWithdraw(k, a)
    \/ \E a \in AmountInputs : \E c \in CommitmentPdaInputs("n1", "sh1", a) :
          PrivateWithdraw("n1", "sh1", a, c, KeyOf(1))
    \/ \E a \in AmountInputs, ix0 \in LedgerIx0Inputs :
          \E c \in CommitmentPdaInputs("n1", "sh1", a) :
             PrivateWithdrawRelayed("n1", "sh1", a, c, KeyOf(2), ix0)

SpecAmounts == Init /\ [][NextAmounts]_vars

\* C11 (amount restriction): request_withdraw, private_deposit,
\* private_withdraw and private_withdraw_relayed reject every amount outside
\* ALLOWED_AMOUNTS, so that no pending withdrawal, commitment record or payout
\* ever carries another amount, and accept each allowed amount when their
\* other preconditions hold.
AmountRestriction ==
    /\ \A a \in AmountInputs \ ALLOWED_AMOUNTS :
          /\ \A k \in Keys : request_withdraw_err(k, a) # "Ok"
          /\ \A f \in DepositorFunds, c \in AmountCommitments :
                private_deposit_err(f, c, a) # "Ok"
          /\ \A c \in CommitmentPdaInputs("n1", "sh1", a), ix0 \in LedgerIx0Inputs :
                /\ private_withdraw_err("n1", "sh1", a, c) # "Ok"
                /\ private_withdraw_relayed_err("n1", "sh1", a, c, ix0) # "Ok"
    /\ \A a \in ALLOWED_AMOUNTS :
          /\ \A k \in Keys :
                (pool.exists /\ k \notin DOMAIN pending /\ a <= pool_vault)
                   => request_withdraw_err(k, a) = "Ok"
          /\ \A f \in DepositorFunds, c \in AmountCommitments :
                (pool.exists /\ c \notin DOMAIN commitments /\ f >= a
                    /\ pool.total_deposited + a <= U64_MAX)
                   => private_deposit_err(f, c, a) = "Ok"
          /\ LET c == compute_commitment("sh1", "n1", a) IN
                (c \in DOMAIN commitments /\ "n1" \notin DOMAIN nullifiers
                    /\ commitments[c].amount = a /\ a <= pool_vault)
                   => /\ private_withdraw_err("n1", "sh1", a, c) = "Ok"
                      /\ private_withdraw_relayed_err(
                            "n1", "sh1", a, c,
                            [program_id |-> ED25519_PROGRAM, signer |-> KeyOf(1)]) = "Ok"
    /\ \A k \in DOMAIN pending : pending[k].amount \in ALLOWED_AMOUNTS
    /\ \A c \in DOMAIN commitments : commitments[c].amount \in ALLOWED_AMOUNTS
    /\ \A i \in 1..Len(last.moved) : last.moved[i][2] \in ALLOWED_AMOUNTS

\* The largest allowed amount has been deposited, requested and withdrawn
\* through the commitment path, next to a record whose commitment hashes an
\* amount that is not allowed.
AmountRestrictionWitness ==
    /\ \E k \in DOMAIN pending : pending[k].amount = 10
    /\ last.op \in {"private_withdraw", "private_withdraw_relayed"}
    /\ last.moved[1][2] = 10
    /\ \E a \in AmountInputs \ ALLOWED_AMOUNTS :
          compute_commitment("sh1", "n1", a) \in DOMAIN commitments

\* C12 (failure kinds of private_withdraw): against an existing commitment
\* record the call fails with NullifierAlreadyUsed when a nullifier record
\* for the supplied nullifier exists, with InvalidCommitmentProof when the
\* recomputed commitment differs from the record's, and with the invalid
\* amount kind (ErrorCode::InvalidWithdrawAmount) when the amount is not an
\* allowed amount; so repeating a successful withdrawal fails with
\* NullifierAlreadyUsed.
WithdrawFailureKinds ==
    \A n \in Nullifiers, sh \in SecretHashes, a \in LedgerAmounts :
       \A c \in DOMAIN commitments :
          LET err == private_withdraw_err(n, sh, a, c) IN
          IF n \in DOMAIN nullifiers THEN err = "NullifierAlreadyUsed"
          ELSE IF a \notin ALLOWED_AMOUNTS
               THEN err \in {"InvalidAmount", "InvalidWithdrawAmount"}
          ELSE compute_commitment(sh, n, a) # commitments[c].commitment
                  => err = "InvalidCommitmentProof"

\* The record of C = H(secret_hash || nullifier || a) holds the amount a, its
\* nullifier is unused and the pool vault covers a.
Withdrawable(n, sh, a) ==
    LET c == compute_commitment(sh, n, a) IN
    /\ a \in ALLOWED_AMOUNTS
    /\ c \in DOMAIN commitments
    /\ commitments[c].amount = a
    /\ n \notin DOMAIN nullifiers
    /\ pool_vault >= a

\* The step is a private_withdraw(n, sh, a) to recipient k with all its
\* effects: spent flag, nullifier record, a out of the pool vault to k,
\* total_withdrawn and withdraw_count, and nothing else.
WithdrawEffect(n, sh, a, k) ==
    LET c == compute_commitment(sh, n, a) IN
    /\ ~commitments[c].spent
    /\ commitments' = [commitments EXCEPT ![c].spent = TRUE]
    /\ n \in DOMAIN nullifiers'
    /\ DOMAIN nullifiers' = DOMAIN nullifiers \cup {n}
    /\ pool_vault' = pool_vault - a
    /\ last'.op = "private_withdraw"
    /\ last'.moved = <<<<k, a, <<"commitment", c>>>>>>
    /\ pool'.total_withdrawn = pool.total_withdrawn + a
    /\ pool'.withdraw_count = pool.withdraw_count + 1
    /\ pool'.total_deposited = pool.total_deposited
    /\ pool'.deposit_count = pool.deposit_count
    /\ UNCHANGED <<churn_vault, pending, funded>>

\* C13 (effect of a commitment withdrawal): once C = H(secret_hash ||
\* nullifier || a) is deposited with amount a, and while its nullifier is
\* unused and the pool vault covers a, private_withdraw(nullifier,
\* secret_hash, a) succeeds for any recipient, and the step sets the spent
\* flag, creates the nullifier record, moves exactly a from the pool vault to
\* the recipient, adds a to total_withdrawn and 1 to withdraw_count, and
\* leaves total_deposited and deposit_count unchanged.
WithdrawalEffect ==
    /\ [](\A n \in Nullifiers, sh \in SecretHashes, a \in LedgerAmounts :
             Withdrawable(n, sh, a)
                => private_withdraw_err(n, sh, a, compute_commitment(sh, n, a)) = "Ok")
    /\ [][nullifiers' # nullifiers =>
             \A n \in Nullifiers, sh \in SecretHashes, a \in LedgerAmounts, k \in Keys :
                (Withdrawable(n, sh, a)
                    /\ PrivateWithdraw(n, sh, a, compute_commitment(sh, n, a), k))
                   => WithdrawEffect(n, sh, a, k)]_vars

\* A withdrawal of 5 units to the second recipient has just been made from a
\* pool that held more than 5 units.
WithdrawalEffectWitness ==
    /\ last.op = "private_withdraw"
    /\ last.moved[1][1] = KeyOf(2)
    /\ last.moved[1][2] = 5
    /\ pool_vault > 0
    /\ pool.withdraw_count = 1

\* The pending withdrawal of key k can be paid from the pool vault now.
Payable(k) ==
    /\ k \in DOMAIN pending
    /\ ~pending[k].claimed
    /\ now >= pending[k].available_at
    /\ pending[k].amount <= pool_vault

\* C14 (batch partial tolerance): a batch of valid length is never aborted:
\* each pair is paid iff its record is well formed, names the supplied
\* recipient, is unclaimed, is past available_at and is covered by the pool
\* vault at that point, every other pair is skipped, and the call succeeds
\* with success_count the number of paid pairs; so a claimable pair followed
\* by an already claimed one is paid with success_count = 1.
BatchPartialTolerance ==
    \A b \in BatchInputs :
       batch_claim_err(b) = "Ok" =>
          /\ batch_claim_withdraw_err(b) = "Ok"
          /\ batch_result(b).success_count = Len(batch_result(b).moved)
          /\ \A k \in DOMAIN pending :
                (b[1] = Wallet(k) /\ b[2] = PendingPda(k)) =>
                   (batch_result(b).pend[k].claimed <=> (pending[k].claimed \/ Payable(k)))

\* C15 (batch structural precondition): batch_claim_withdraw fails exactly
\* when the account list has fewer than 2 entries (BatchTooSmall), an odd
\* number of entries (BatchInvalidPairs) or more than 10 entries
\* (BatchTooLarge); for every even length from 2 to 10 it succeeds, however
\* many pairs are skipped or paid.
BatchStructuralPrecondition ==
    pool.exists =>
       \A b \in BatchInputs :
          /\ Len(b) < 2 => batch_claim_withdraw_err(b) = "BatchTooSmall"
          /\ (Len(b) >= 2 /\ Len(b) % 2 = 1)
                => batch_claim_withdraw_err(b) = "BatchInvalidPairs"
          /\ (Len(b) > 10 /\ Len(b) % 2 = 0)
                => batch_claim_withdraw_err(b) = "BatchTooLarge"
          /\ (Len(b) \in 2..10 /\ Len(b) % 2 = 0)
                => batch_claim_withdraw_err(b) = "Ok"


race_withdraw_err(r) ==
    private_withdraw_err(r[1], r[2], RaceAmount, RaceCommitment(r))

race_deposit_err(c) == private_deposit_err(U64_MAX, c, RaceAmount)

\* The step is the successful withdrawal r / the successful deposit of c.
RaceWithdrawn(r) ==
    /\ r[1] \notin DOMAIN nullifiers
    /\ r[1] \in DOMAIN nullifiers'
    /\ RaceCommitment(r) \in DOMAIN commitments
    /\ ~commitments[RaceCommitment(r)].spent
    /\ commitments'[RaceCommitment(r)].spent

RaceDeposited(c) == c \notin DOMAIN commitments /\ c \in DOMAIN commitments'

\* Two withdrawals on one nullifier, two deposits on one commitment key: the
\* one that runs second fails because the key is occupied.
RaceSameKey ==
    [][/\ \A r1, r2 \in RaceRequests :
             (race_withdraw_err(r1) = "Ok" /\ race_withdraw_err(r2) = "Ok"
                /\ RaceWithdrawn(r1) /\ r1[1] = r2[1])
                => race_withdraw_err(r2)' = "AccountAlreadyInUse"
       /\ \A c \in RaceCommitments :
             (race_deposit_err(c) = "Ok" /\ RaceDeposited(c))
                => race_deposit_err(c)' = "AccountAlreadyInUse"]_vars

\* C17 (race on one key): of two requests that would each succeed, when they
\* target the same nullifier (two private withdrawals) or the same commitment
\* key (two private deposits), the one that runs second fails with the
\* already-in-use error of the occupied key, whichever runs first; when they
\* target different keys, the one that runs second still succeeds, whichever
\* runs first.
RaceOnOneKey ==
    [][/\ \A r1, r2 \in RaceRequests :
             (race_withdraw_err(r1) = "Ok" /\ race_withdraw_err(r2) = "Ok"
                /\ RaceWithdrawn(r1))
                => race_withdraw_err(r2)' =
                      IF r1[1] = r2[1] THEN "AccountAlreadyInUse" ELSE "Ok"
       /\ \A c1, c2 \in RaceCommitments :
             (race_deposit_err(c1) = "Ok" /\ race_deposit_err(c2) = "Ok"
                /\ RaceDeposited(c1))
                => race_deposit_err(c2)' =
                      IF c1 = c2 THEN "AccountAlreadyInUse" ELSE "Ok"]_vars


\* The runs of the single instructions on the inputs of Spec, each with the
\* outcome the instruction's action gives it.
PoolRuns ==
    {<<init_privacy_pool_steps, init_privacy_pool_err>>}
    \cup {<<pool_deposit_steps(U64_MAX, a), pool_deposit_err(U64_MAX, a)>> :
             a \in PoolAmounts}
    \cup {<<request_withdraw_steps(KeyOf(1), a), request_withdraw_err(KeyOf(1), a)>> :
             a \in PoolAmounts}
    \cup {<<claim_withdraw_steps(KeyOf(1)), claim_withdraw_err(KeyOf(1))>>}
    \cup {<<claim_withdraw_relayed_steps(KeyOf(1), KeyOf(1), ix0),
            claim_withdraw_relayed_err(KeyOf(1), KeyOf(1), ix0)>> : ix0 \in Ix0Inputs}
    \cup {<<init_churn_vault_steps(0), init_churn_vault_err(0)>>}
    \cup {<<pool_churn_steps(0, a), pool_churn_err(0, a)>> : a \in PoolAmounts}
    \cup {<<pool_unchurn_steps(0, a), pool_unchurn_err(0, a)>> : a \in PoolAmounts}
    \cup {<<private_deposit_steps(U64_MAX, c, a), private_deposit_err(U64_MAX, c, a)>> :
             c \in PoolCommitments, a \in PoolAmounts}
    \cup UNION {{<<private_withdraw_steps("n1", "sh1", a, c),
                   private_withdraw_err("n1", "sh1", a, c)>> :
                   c \in CommitmentPdaInputs("n1", "sh1", a)} : a \in PoolAmounts}
    \cup UNION {{<<private_withdraw_relayed_steps("n1", "sh1", a, c, ix0),
                   private_withdraw_relayed_err("n1", "sh1", a, c, ix0)>> :
                   c \in CommitmentPdaInputs("n1", "sh1", a), ix0 \in Ix0Inputs} :
                a \in PoolAmounts}

\* Effects that create the instruction's new record account; the account
\* validation performs them before the handler runs.
Creations ==
    {"create pool", "create pending_withdraw", "create churn_state",
     "create commitment_pda", "create nullifier_pda"}

\* Checks made by the system transfer and by the counter updates.
LateChecks == {"InsufficientLamports", "Overflow"}

EffectsBefore(steps) ==
    {steps[i].name : i \in {j \in 1..Len(Executed(steps)) : steps[j].kind = "effect"}}

\* C18 (checks before effects), as the spec states it: a failing call of a
\* single instruction has performed no transfer, flag flip, record write or
\* counter update before its failure is detected (the creation of the call's
\* new record account by the account validation left aside).
ChecksBeforeEffects ==
    \A run \in PoolRuns :
       Result(run[1]) # "Ok" => EffectsBefore(run[1]) \subseteq Creations

\* C18 as the code has it: the handler's own precondition checks precede every
\* write to an existing account and every transfer, so a call that fails one
\* of them has done at most the creation of its new record account; the
\* system transfer's lack of funds and the counter overflows are the only
\* failures found after earlier transfers or writes.
ChecksBeforeEffectsButLate ==
    \A run \in PoolRuns :
       /\ Result(run[1]) = run[2]
       /\ Result(run[1]) # "Ok" =>
             \/ EffectsBefore(run[1]) \subseteq Creations
             \/ Result(run[1]) \in LateChecks

\* A private withdrawal that marks the commitment spent and writes the
\* nullifier record before its transfer finds the vault short, after a churn
\* has moved lamports out of the vault.
ChecksBeforeEffectsWitness ==
    /\ pool.churn_count > 0
    /\ \E a \in PoolAmounts : \E c \in DOMAIN commitments :
          /\ Result(private_withdraw_steps("n1", "sh1", a, c)) = "InsufficientLamports"
          /\ "commitment_pda.spent" \in EffectsBefore(private_withdraw_steps("n1", "sh1", a, c))


\* C19 (the relayed commitment withdrawal refines the direct one): in every
\* state and for every (nullifier, secret_hash, amount, commitment account),
\* with a first instruction of the ed25519 program private_withdraw_relayed
\* has the outcome private_withdraw has, success or the same error; and every
\* successful relayed withdrawal is a step private_withdraw could have taken:
\* the same commitment marked spent, the same nullifier record, the same
\* amount to the same recipient, the same counters.
RelayedRefinesDirect ==
    /\ [](\A n \in Nullifiers, sh \in SecretHashes, a \in LedgerAmounts,
             ix0 \in LedgerIx0Inputs :
             \A c \in CommitmentPdaInputs(n, sh, a) :
                ix0.program_id = ED25519_PROGRAM =>
                   private_withdraw_relayed_err(n, sh, a, c, ix0)
                      = private_withdraw_err(n, sh, a, c))
    /\ [][(last'.op = "private_withdraw_relayed" /\ nullifiers' # nullifiers) =>
            \E n \in Nullifiers, sh \in SecretHashes, a \in LedgerAmounts, k \in Keys :
               \E c \in DOMAIN commitments :
                  /\ private_withdraw_err(n, sh, a, c) = "Ok"
                  /\ last'.ix0.program_id = ED25519_PROGRAM
                  /\ last'.moved = <<<<k, a, <<"commitment", c>>>>>>
                  /\ commitments' = [commitments EXCEPT ![c].spent = TRUE]
                  /\ nullifiers' = (n :> [nullifier |-> n, used_at |-> now]) @@ nullifiers
                  /\ pool_vault' = pool_vault - a
                  /\ pool' = [pool EXCEPT !.total_withdrawn = @ + a,
                                          !.withdraw_count = @ + 1]
                  /\ UNCHANGED <<churn_state, churn_vault, pending, clock, funded>>]_vars

\* A relayed withdrawal has paid the second of two commitments.
RelayedRefinesDirectWitness ==
    /\ last.op = "private_withdraw_relayed"
    /\ last.ix0.program_id = ED25519_PROGRAM
    /\ pool.withdraw_count = 2
    /\ \A c \in DOMAIN commitments : commitments[c].spent


\* A first instruction of the ed25519 program, and the first instructions that
\* are not.
GoodIx0 == [program_id |-> ED25519_PROGRAM, signer |-> KeyOf(1)]
BadIx0s == {ix0 \in Ix0Inputs : ix0.program_id # ED25519_PROGRAM}

\* The calls of the two relayed instructions on existing accounts.
RelayedClaims == {<<k, p>> : k \in Keys, p \in DOMAIN pending}
RelayedWithdrawals ==
    {<<sh, a, c>> : sh \in SecretHashes, a \in {RelayAmount, 2}, c \in DOMAIN commitments}

\* C20 (missing verification artifact), as the spec states it: whenever the
\* first instruction is not one of the ed25519 program, claim_withdraw_relayed
\* and private_withdraw_relayed fail with InvalidSignatureInstruction.
MissingArtifactError ==
    \A ix0 \in BadIx0s :
       /\ \A r \in RelayedClaims :
             claim_withdraw_relayed_err(r[1], r[2], ix0) = "InvalidSignatureInstruction"
       /\ \A r \in RelayedWithdrawals :
             private_withdraw_relayed_err("n1", r[1], r[2], r[3], ix0)
                = "InvalidSignatureInstruction"

\* What the two instructions report once instruction 0 has passed its check.
AfterArtifactCheck ==
    {"Ok", "InvalidCommitmentProof", "NullifierAlreadyUsed", "InvalidAmount",
     "InsufficientLamports", "Overflow"}

\* C20 as the code has it: whenever the first instruction is not one of the
\* ed25519 program, claim_withdraw_relayed and private_withdraw_relayed fail
\* and change nothing; the error is that of an earlier check where one fails
\* (missing or used account, recipient mismatch, claimed, not ready, amount
\* not allowed), and InvalidSignatureInstruction in every other case.  No
\* relayed instruction has ever taken effect without such a first instruction.
MissingArtifactFails ==
    /\ \A ix0 \in BadIx0s :
          /\ \A k \in Keys, p \in Keys :
                LET with == claim_withdraw_relayed_err(k, p, GoodIx0) IN
                claim_withdraw_relayed_err(k, p, ix0) =
                   IF with \in AfterArtifactCheck
                   THEN "InvalidSignatureInstruction" ELSE with
          /\ \A sh \in SecretHashes, a \in {RelayAmount, 2} :
                \A c \in CommitmentPdaInputs("n1", sh, a) :
                   LET with == private_withdraw_relayed_err("n1", sh, a, c, GoodIx0) IN
                   private_withdraw_relayed_err("n1", sh, a, c, ix0) =
                      IF with \in AfterArtifactCheck
                      THEN "InvalidSignatureInstruction" ELSE with
    /\ last.op \in {"claim_withdraw_relayed", "private_withdraw_relayed"}
          => last.ix0.program_id = ED25519_PROGRAM

\* A pending withdrawal ready to be claimed and an unspent commitment, each
\* refused to a relayer whose bundle has no ed25519 instruction, after a
\* relayed claim with one has been paid.
MissingArtifactWitness ==
    /\ last.op = "claim_withdraw_relayed"
    /\ \E ix0 \in BadIx0s :
          /\ \E r \in RelayedClaims :
                claim_withdraw_relayed_err(r[1], r[2], ix0) = "InvalidSignatureInstruction"
          /\ \E r \in RelayedWithdrawals :
                private_withdraw_relayed_err("n1", r[1], r[2], r[3], ix0)
                   = "InvalidSignatureInstruction"


\* The triples offered to the commitment path.
LedgerTriples == SecretHashes \X Nullifiers \X LedgerAmounts

\* The preimage check of withdraw on the record stored at cpda.
ProofCheck(t, cpda) ==
    compute_commitment(t[1], t[2], t[3]) = commitments[cpda].commitment

\* C21 (commitment round-trip): the commitments of two triples (secret_hash,
\* nullifier, amount) are equal only if the triples are; a record deposited
\* under C = H(secret_hash || nullifier || amount_le8) passes the preimage
\* check for that triple and for no triple differing in secret_hash, nullifier
\* or amount, and a withdrawal with such a triple that gets as far as the check
\* fails with InvalidCommitmentProof, directly or relayed.
CommitmentRoundTrip ==
    /\ \A t1, t2 \in LedgerTriples :
          compute_commitment(t1[1], t1[2], t1[3]) = compute_commitment(t2[1], t2[2], t2[3])
             <=> t1 = t2
    /\ \A t \in LedgerTriples :
          LET c == compute_commitment(t[1], t[2], t[3]) IN
          c \in DOMAIN commitments =>
             /\ commitments[c].commitment = c
             /\ \A t2 \in LedgerTriples :
                   /\ ProofCheck(t2, c) <=> t2 = t
                   /\ (t2 # t /\ t2[3] \in ALLOWED_AMOUNTS /\ t2[2] \notin DOMAIN nullifiers)
                         => /\ private_withdraw_err(t2[2], t2[1], t2[3], c)
                                  = "InvalidCommitmentProof"
                            /\ \A ix0 \in LedgerIx0Inputs :
                                  ix0.program_id = ED25519_PROGRAM =>
                                     private_withdraw_relayed_err(t2[2], t2[1], t2[3], c, ix0)
                                        = "InvalidCommitmentProof"
                   /\ (t2 = t /\ t2[2] \notin DOMAIN nullifiers)
                         => private_withdraw_err(t2[2], t2[1], t2[3], c)
                               # "InvalidCommitmentProof"

\* A withdrawal with the deposited triple has been paid, and another record is
\* refused to a triple that differs from its own in the last byte of the
\* secret hash only.
CommitmentRoundTripWitness ==
    /\ last.op = "private_withdraw"
    /\ compute_commitment("sh1", "n2", 1) \in DOMAIN commitments
    /\ "n2" \notin DOMAIN nullifiers
    /\ private_withdraw_err("n2", "sh2", 1, compute_commitment("sh1", "n2", 1))
          = "InvalidCommitmentProof"


\* The phase of a pending withdrawal at a given time.
Phase(p, t) ==
    IF p.claimed THEN "Claimed"
    ELSE IF t >= p.available_at THEN "Claimable"
    ELSE "Requested"

\* The moves of a pending withdrawal: it stays where it is, becomes claimable
\* or, once claimable, is claimed.
PhaseMoves ==
    {<<"Requested", "Requested">>, <<"Requested", "Claimable">>,
     <<"Claimable", "Claimable">>, <<"Claimable", "Claimed">>,
     <<"Claimed", "Claimed">>}

\* The record q is the record p after a legal move from time t to time u.
PendingMove(p, t, q, u) ==
    /\ q.recipient = p.recipient
    /\ q.amount = p.amount
    /\ q.requested_at = p.requested_at
    /\ q.available_at = p.available_at
    /\ <<Phase(p, t), Phase(q, u)>> \in PhaseMoves

\* C22 (pending-withdrawal state machine): in every step the clock does not
\* go back, every pending withdrawal is still there, keeps its recipient,
\* amount, requested_at and available_at, and moves Requested -> Claimable ->
\* Claimed only: claimed never returns to false, a claimable record stays
\* claimable until it is claimed, and no record is claimed before it was
\* claimable.  The loop of batch_claim_withdraw makes such moves only.
PendingStateMachine ==
    /\ [](\A b \in PoolBatches :
            batch_claim_err(b) = "Ok" =>
               /\ DOMAIN batch_result(b).pend = DOMAIN pending
               /\ \A k \in DOMAIN pending :
                     PendingMove(pending[k], now, batch_result(b).pend[k], now))
    /\ [][/\ now' >= now
          /\ \A k \in DOMAIN pending :
                /\ k \in DOMAIN pending'
                /\ PendingMove(pending[k], now, pending'[k], now')]_vars

\* One pending withdrawal has been claimed while another, requested later,
\* is still waiting for its release time.
PendingStateMachineWitness ==
    \E k1, k2 \in DOMAIN pending :
       /\ Phase(pending[k1], now) = "Claimed"
       /\ Phase(pending[k2], now) = "Requested"
       /\ pending[k2].requested_at > pending[k1].requested_at

\* ------------------------------------------------ custody and the ledger
\* The ledger updates that go with a change of the pool vault's balance.
\* A deposit of d adds d to total_deposited and 1 to deposit_count.
DepositRecorded(d) ==
    /\ pool'.total_deposited = pool.total_deposited + d
    /\ pool'.deposit_count = pool.deposit_count + 1

\* A payout of d adds d to total_withdrawn and 1 to withdraw_count and flips
\* the flag of one record of the amount d: claimed of a pending withdrawal or
\* spent of a commitment.
PayoutRecorded(d) ==
    /\ pool'.total_withdrawn = pool.total_withdrawn + d
    /\ pool'.withdraw_count = pool.withdraw_count + 1
    /\ \/ \E k \in DOMAIN pending :
             /\ ~pending[k].claimed /\ pending'[k].claimed
             /\ pending[k].amount = d
       \/ \E c \in DOMAIN commitments :
             /\ ~commitments[c].spent /\ commitments'[c].spent
             /\ commitments[c].amount = d

\* A churn of d into vault i adds d to the vault's total_churned and 1 to
\* its churn_count and to the pool's churn_count, each clamped.
ChurnRecorded(i, d) ==
    /\ churn_vault'[i] = churn_vault[i] + d
    /\ churn_state'[i].total_churned = saturating_add(churn_state[i].total_churned, d)
    /\ churn_state'[i].churn_count = saturating_add(churn_state[i].churn_count, 1)
    /\ pool'.churn_count = saturating_add(pool.churn_count, 1)

\* An unchurn of d out of vault i moves the lamports and writes no record.
UnchurnUnrecorded(i, d) ==
    /\ churn_vault'[i] = churn_vault[i] - d
    /\ UNCHANGED <<pool, churn_state, pending, commitments, nullifiers>>

LedgerChanged ==
    \/ pool' # pool
    \/ churn_state' # churn_state
    \/ \E k \in DOMAIN pending : pending'[k].claimed # pending[k].claimed
    \/ \E c \in DOMAIN commitments : commitments'[c].spent # commitments[c].spent

\* C23 as stated (paired ledger update): every step that changes the pool
\* vault's balance, pool_unchurn included, also increments a pool or vault
\* counter or flips the flag of a record.
PairedLedgerUpdate ==
    [][pool_vault' # pool_vault => LedgerChanged]_vars

\* C23 (paired ledger update, pool_unchurn apart): a step that raises the
\* pool vault's balance by d is a deposit recorded in total_deposited and
\* deposit_count, or an unchurn, which debits d from one churn vault and
\* changes no counter and no record; a step that lowers it by d is a payout
\* recorded in total_withdrawn, withdraw_count and the flag of a record of
\* the amount d, or a churn recorded in the vault's and the pool's churn
\* counters.
PairedLedgerUpdateButUnchurn ==
    [][pool_vault' # pool_vault =>
          IF pool_vault' > pool_vault
          THEN \/ /\ DepositRecorded(pool_vault' - pool_vault)
                  /\ churn_vault' = churn_vault
               \/ \E i \in DOMAIN churn_state :
                     UnchurnUnrecorded(i, pool_vault' - pool_vault)
          ELSE \/ /\ PayoutRecorded(pool_vault - pool_vault')
                  /\ churn_vault' = churn_vault
               \/ \E i \in DOMAIN churn_state :
                     ChurnRecorded(i, pool_vault - pool_vault')]_vars

\* Lamports came back from a churn vault after a deposit, a churn and a
\* payout were recorded.
PairedLedgerUpdateWitness ==
    /\ last.op = "pool_unchurn"
    /\ pool.churn_count > 0
    /\ pool.withdraw_count > 0
    /\ churn_vault[0] = 0
    /\ pool_vault > 0

\* ------------------------------------------------------------ churn mixer
\* What a successful churn of amount into the vault of churn_state i does.
Clamped(n) == IF n > U64_MAX THEN U64_MAX ELSE n

ChurnFrame(i, amount) ==
    /\ pool_vault' = pool_vault - amount
    /\ churn_vault'[i] = churn_vault[i] + amount
    /\ churn_state'[i].total_churned = Clamped(churn_state[i].total_churned + amount)
    /\ churn_state'[i].churn_count = Clamped(churn_state[i].churn_count + 1)
    /\ churn_state'[i].vault_index = churn_state[i].vault_index
    /\ pool'.churn_count = Clamped(pool.churn_count + 1)
    /\ pool'.exists
    /\ pool'.total_deposited = pool.total_deposited
    /\ pool'.total_withdrawn = pool.total_withdrawn
    /\ pool'.deposit_count = pool.deposit_count
    /\ pool'.withdraw_count = pool.withdraw_count
    /\ DOMAIN churn_state' = DOMAIN churn_state
    /\ \A j \in DOMAIN churn_state \ {i} : churn_state'[j] = churn_state[j]
    /\ \A j \in VaultIndices \ {i} : churn_vault'[j] = churn_vault[j]
    /\ UNCHANGED <<pending, commitments, nullifiers>>
    /\ pool_vault' + churn_vault'[0] + churn_vault'[1] + churn_vault'[2]
          = pool_vault + churn_vault[0] + churn_vault[1] + churn_vault[2]

\* C24 (frame of churn): a successful pool_churn of amount into a vault moves
\* exactly amount from the pool vault to that churn vault, adds amount to the
\* vault's total_churned and 1 to its churn_count and to the pool's
\* churn_count, each clamped at the maximum, and leaves total_deposited,
\* total_withdrawn, deposit_count, withdraw_count, the other vaults and every
\* pending, commitment and nullifier record as they were; the balances of
\* the pool vault and the churn vaults add up to what they did.
ChurnFrameHolds ==
    [][\A i \in ChurnVaults, a \in ChurnAmounts :
          (pool_churn_err(i, a) = "Ok" /\ PoolChurn(i, a)) => ChurnFrame(i, a)]_vars

\* A churn has just clamped the first vault's total_churned and the pool's
\* churn_count, while the second vault holds lamports and a pending
\* withdrawal, a spent commitment and its nullifier are on record.
ChurnFrameWitness ==
    /\ last.op = "pool_churn"
    /\ {0, 1} \subseteq DOMAIN churn_state
    /\ churn_state[0].total_churned = U64_MAX
    /\ churn_state[0].total_churned < 5 * churn_state[0].churn_count
    /\ pool.churn_count = U64_MAX
    /\ pool.churn_count < churn_state[0].churn_count + churn_state[1].churn_count
    /\ churn_vault[0] > 0
    /\ churn_vault[1] > 0
    /\ pending # EmptyMap
    /\ \E c \in DOMAIN commitments : commitments[c].spent
    /\ nullifiers # EmptyMap

\* What a successful unchurn of amount out of the vault of churn_state i does.
UnchurnFrame(i, amount) ==
    /\ pool_vault' = pool_vault + amount
    /\ churn_vault'[i] = churn_vault[i] - amount
    /\ \A j \in VaultIndices \ {i} : churn_vault'[j] = churn_vault[j]
    /\ UNCHANGED <<pool, churn_state, pending, commitments, nullifiers>>

\* C25 (preconditions of churn and unchurn): on an initialised pool and
\* vault, pool_churn and pool_unchurn fail with InvalidAmount for the amount
\* 0, pool_churn fails with InsufficientPoolFunds for an amount above the pool
\* vault's balance and pool_unchurn with InsufficientChurnFunds for an amount
\* above the churn vault's balance, and both succeed otherwise; a failing call
\* has performed no effect when it stops and changes no account, and a
\* successful pool_unchurn changes the two balances only.
ChurnPreconditions ==
    /\ [](\A i \in DOMAIN churn_state \cap ChurnVaults, a \in 0..(U64_MAX + 1) :
            /\ pool_churn_err(i, a) =
                  IF a = 0 THEN "InvalidAmount"
                  ELSE IF a > pool_vault THEN "InsufficientPoolFunds" ELSE "Ok"
            /\ pool_unchurn_err(i, a) =
                  IF a = 0 THEN "InvalidAmount"
                  ELSE IF a > churn_vault[i] THEN "InsufficientChurnFunds" ELSE "Ok"
            /\ Result(pool_churn_steps(i, a)) = pool_churn_err(i, a)
            /\ Result(pool_unchurn_steps(i, a)) = pool_unchurn_err(i, a)
            /\ pool_churn_err(i, a) # "Ok" => EffectsBefore(pool_churn_steps(i, a)) = {}
            /\ pool_unchurn_err(i, a) # "Ok" => EffectsBefore(pool_unchurn_steps(i, a)) = {})
    /\ [][\A i \in ChurnVaults, a \in ChurnAmounts :
            /\ (pool_churn_err(i, a) # "Ok" /\ PoolChurn(i, a)) => UNCHANGED accounts
            /\ (pool_unchurn_err(i, a) # "Ok" /\ PoolUnchurn(i, a)) => UNCHANGED accounts
            /\ (pool_unchurn_err(i, a) = "Ok" /\ PoolUnchurn(i, a)) => UnchurnFrame(i, a)]_vars

\* Both vaults were churned into and the second one emptied again by an
\* unchurn: a churn of 5 now exceeds the pool vault's balance, an unchurn of 5
\* exceeds the second vault's and is covered by the first vault's.
ChurnPreconditionsWitness ==
    /\ {0, 1} \subseteq DOMAIN churn_state
    /\ churn_state[0].churn_count > 0
    /\ churn_state[1].churn_count > 0
    /\ churn_vault[1] = 0
    /\ pool_vault > 0
    /\ pool_churn_err(0, 5) = "InsufficientPoolFunds"
    /\ pool_unchurn_err(1, 5) = "InsufficientChurnFunds"
    /\ pool_unchurn_err(0, 5) = "Ok"
    /\ pool_unchurn_err(0, 0) = "InvalidAmount"

\* The vault indices a u8 argument can carry.
U8Indices == 0..255

\* C26 (churn vault creation): on an initialised pool init_churn_vault fails
\* with InvalidChurnIndex for every index of 3 and above; it succeeds for an
\* index of 0, 1 or 2 whose vault state does not exist and fails, before any
\* field is written, for one whose vault state exists; a vault state is never
\* removed, its total_churned and churn_count are never reset, and its
\* vault_index never changes and is the index of the slot it is stored under.
ChurnVaultCreation ==
    /\ [](/\ \A i \in U8Indices :
                pool.exists =>
                   init_churn_vault_err(i) =
                      IF i \in DOMAIN churn_state THEN "AccountAlreadyInUse"
                      ELSE IF i >= 3 THEN "InvalidChurnIndex" ELSE "Ok"
          /\ \A i \in ChurnIndexInputs :
                /\ Result(init_churn_vault_steps(i)) = init_churn_vault_err(i)
                /\ i \in DOMAIN churn_state =>
                      EffectsBefore(init_churn_vault_steps(i)) = {}
          /\ DOMAIN churn_state \subseteq {0, 1, 2}
          /\ \A i \in DOMAIN churn_state : churn_state[i].vault_index = i)
    /\ [][\A i \in DOMAIN churn_state :
            /\ i \in DOMAIN churn_state'
            /\ churn_state'[i].vault_index = churn_state[i].vault_index
            /\ churn_state'[i].total_churned >= churn_state[i].total_churned
            /\ churn_state'[i].churn_count >= churn_state[i].churn_count]_vars

\* The three vaults exist, the last of them created after the first one had
\* been churned into and holds lamports: a second initialisation of each is
\* refused.
ChurnVaultCreationWitness ==
    /\ last.op = "init_churn_vault"
    /\ DOMAIN churn_state = {0, 1, 2}
    /\ churn_state[0].total_churned > 0
    /\ churn_vault[0] > 0
    /\ \A i \in 0..2 : init_churn_vault_err(i) = "AccountAlreadyInUse"

\* ----------------------------------------------------- aggregate overflow
ExceedsMax(x, d) == x + d > U64_MAX

\* The six instructions that update an aggregate with checked_add: none of
\* them succeeds when the sum would exceed the maximum, and each fails with
\* Overflow when that is all that stands in its way.
OverflowOfChecked ==
    /\ \A a \in OverflowAmounts :
          LET err == pool_deposit_err(U64_MAX, a) IN
          /\ err = "Ok" => ~ExceedsMax(pool.total_deposited, a)
                              /\ ~ExceedsMax(pool.deposit_count, 1)
          /\ (pool.exists /\ ExceedsMax(pool.total_deposited, a)) => err = "Overflow"
    /\ LET err == private_deposit_err(U64_MAX, OverflowCommitment, 5) IN
          /\ err = "Ok" => ~ExceedsMax(pool.total_deposited, 5)
                              /\ ~ExceedsMax(pool.deposit_count, 1)
          /\ (pool.exists /\ OverflowCommitment \notin DOMAIN commitments
                 /\ ExceedsMax(pool.total_deposited, 5)) => err = "Overflow"
    /\ \A k \in DOMAIN pending :
          LET direct == claim_withdraw_err(k)
              relayed == claim_withdraw_relayed_err(k, k, PoolIx0)
              due == /\ ~pending[k].claimed
                     /\ now >= pending[k].available_at
                     /\ pool_vault >= pending[k].amount
                     /\ ExceedsMax(pool.total_withdrawn, pending[k].amount)
          IN  /\ \A err \in {direct, relayed} :
                    err = "Ok" => ~ExceedsMax(pool.total_withdrawn, pending[k].amount)
                                     /\ ~ExceedsMax(pool.withdraw_count, 1)
              /\ due => direct = "Overflow" /\ relayed = "Overflow"
    /\ LET direct == private_withdraw_err("n1", "sh1", 5, OverflowCommitment)
           relayed == private_withdraw_relayed_err("n1", "sh1", 5, OverflowCommitment, PoolIx0)
           due == /\ OverflowCommitment \in DOMAIN commitments
                  /\ "n1" \notin DOMAIN nullifiers
                  /\ pool_vault >= 5
                  /\ ExceedsMax(pool.total_withdrawn, 5)
       IN  /\ \A err \in {direct, relayed} :
                 err = "Ok" => ~ExceedsMax(pool.total_withdrawn, 5)
                                  /\ ~ExceedsMax(pool.withdraw_count, 1)
           /\ due => direct = "Overflow" /\ relayed = "Overflow"

\* No step makes an aggregate smaller or moves it by another amount than the
\* lamports that entered or left the pool vault.
AggregatesExact ==
    /\ pool'.total_deposited >= pool.total_deposited
    /\ pool'.total_withdrawn >= pool.total_withdrawn
    /\ pool'.deposit_count - pool.deposit_count
          = IF pool'.total_deposited > pool.total_deposited THEN 1 ELSE 0
    /\ pool'.withdraw_count >= pool.withdraw_count
    /\ pool' # pool =>
          pool_vault' - pool_vault
             = (pool'.total_deposited - pool.total_deposited)
                  - (pool'.total_withdrawn - pool.total_withdrawn)

\* The part of C27 on the instructions it names, which holds: they fail with
\* Overflow instead of wrapping, and every step keeps the aggregates exact.
OverflowChecked ==
    [](OverflowOfChecked) /\ [][AggregatesExact]_vars

\* The aggregates the loop of batch_claim_withdraw writes are the exact sums.
BatchAggregatesExact ==
    \A b \in PoolBatches :
       (batch_claim_err(b) = "Ok" /\ batch_result(b).success_count > 0) =>
          /\ saturating_add(pool.total_withdrawn, batch_result(b).total_claimed)
                = pool.total_withdrawn + batch_result(b).total_claimed
          /\ saturating_add(pool.withdraw_count, batch_result(b).success_count)
                = pool.withdraw_count + batch_result(b).success_count

OverflowCheckedWitness ==
    /\ \E k \in DOMAIN pending : claim_withdraw_err(k) = "Overflow"
    /\ private_withdraw_err("n1", "sh1", 5, OverflowCommitment) = "Overflow"

\* ------------------------------------------------ recipient independence
\* What a private_withdraw to recipient returns and leaves behind: the error,
\* the pool account, the commitment and nullifier records, the pool vault's
\* balance and the account that received the amount.
withdraw_result(nullifier, secret_hash, amount, cpda, recipient) ==
    IF private_withdraw_err(nullifier, secret_hash, amount, cpda) = "Ok"
    THEN [err |-> "Ok",
          pool |-> [pool EXCEPT !.total_withdrawn = @ + amount,
                                !.withdraw_count = @ + 1],
          commitment_pda |-> [commitments[cpda] EXCEPT !.spent = TRUE],
          nullifier_pda |-> [nullifier |-> nullifier, used_at |-> now],
          pool_vault |-> pool_vault - amount,
          received |-> <<recipient, amount>>]
    ELSE [err |-> private_withdraw_err(nullifier, secret_hash, amount, cpda),
          pool |-> pool,
          commitment_pda |-> CommitmentAt(cpda),
          nullifier_pda |-> <<>>,
          pool_vault |-> pool_vault,
          received |-> <<>>]

\* The step leaves what withdraw_result says.
LeavesResult(r, nullifier, cpda) ==
    /\ pool' = r.pool
    /\ commitments'[cpda] = r.commitment_pda
    /\ nullifiers'[nullifier] = r.nullifier_pda
    /\ pool_vault' = r.pool_vault
    /\ <<last'.moved[1][1], last'.moved[1][2]>> = r.received

\* C28 (recipient independence): for an unspent commitment record and its
\* matching nullifier, secret_hash and amount, private_withdraw succeeds
\* whoever the recipient is, and two runs from the same state that differ in
\* the recipient only leave the same pool counters, commitment record,
\* nullifier record and vault balance, and differ only in the account that
\* received the amount.
RecipientIndependence ==
    /\ [](\A n \in Nullifiers, sh \in SecretHashes, a \in LedgerAmounts :
            \A k1 \in Keys, k2 \in Keys :
               LET c == compute_commitment(sh, n, a)
                   r1 == withdraw_result(n, sh, a, c, k1)
                   r2 == withdraw_result(n, sh, a, c, k2)
               IN  /\ r1.err = r2.err
                   /\ r1.pool = r2.pool
                   /\ r1.commitment_pda = r2.commitment_pda
                   /\ r1.nullifier_pda = r2.nullifier_pda
                   /\ r1.pool_vault = r2.pool_vault
                   /\ Withdrawable(n, sh, a) =>
                         /\ r1.err = "Ok"
                         /\ r1.received = <<k1, a>> /\ r2.received = <<k2, a>>)
    /\ [][nullifiers' # nullifiers =>
            \A n \in Nullifiers, sh \in SecretHashes, a \in LedgerAmounts, k \in Keys :
               LET c == compute_commitment(sh, n, a) IN
               (Withdrawable(n, sh, a) /\ PrivateWithdraw(n, sh, a, c, k))
                  => LeavesResult(withdraw_result(n, sh, a, c, k), n, c)]_vars

\* A withdrawal has just paid the first recipient while another commitment
\* can still be withdrawn to either recipient.
RecipientIndependenceWitness ==
    /\ last.op = "private_withdraw"
    /\ last.moved[1][1] = KeyOf(1)
    /\ \E n \in Nullifiers, sh \in SecretHashes, a \in LedgerAmounts :
          Withdrawable(n, sh, a)

\* --------------------------------------------------------------- receipts
\* The commitment verify recomputes from its five arguments equals the one
\* stored; the arguments name the stored payee, batch and time.
Recomputed(receipt, w, b, t, a, secret) ==
    receipt_commitment(w, b, t, a, secret) = receipts[receipt].commitment
MetadataMatch(receipt, w, b, t) ==
    /\ receipts[receipt].employee = w
    /\ receipts[receipt].batch = b
    /\ receipts[receipt].timestamp = t

\* A step of either verification that succeeded.
Verified ==
    /\ last' # last
    /\ last'.op \in {"verify_receipt", "verify_receipt_blind"}

\* C29: on an existing receipt, verify_receipt succeeds exactly when the
\* commitment recomputed from the five arguments equals the stored one and
\* the payee, batch and timestamp given equal the stored ones; whenever the
\* recomputed commitment differs the error is InvalidReceiptProof, whatever
\* the metadata; and a step of verify_receipt or verify_receipt_blind leaves
\* the receipts and every other account as they were.
VerifyReceiptContract ==
    /\ [](\A receipt \in DOMAIN receipts, w \in Keys, b \in VerifyBatchKeys,
             t \in VerifyTimes, a \in VerifyAmounts, secret \in ReceiptSecrets :
             LET err == verify_receipt_err(receipt, w, b, t, a, secret) IN
             /\ err = "Ok" <=> /\ Recomputed(receipt, w, b, t, a, secret)
                               /\ MetadataMatch(receipt, w, b, t)
             /\ ~Recomputed(receipt, w, b, t, a, secret) => err = "InvalidReceiptProof")
    /\ [][Verified => UNCHANGED <<payroll, accounts, clock>>]_vars

\* A receipt has just been verified, and another set of arguments for it
\* has both a wrong payee and a commitment that does not match.
VerifyReceiptContractWitness ==
    /\ last.op = "verify_receipt"
    /\ \E receipt \in DOMAIN receipts, secret \in ReceiptSecrets, a \in VerifyAmounts :
          /\ verify_receipt_err(receipt, receipts[receipt].employee, BATCH_KEY,
                                receipts[receipt].timestamp, a, secret) = "Ok"
          /\ ~MetadataMatch(receipt, KeyOf(2), BATCH_KEY, receipts[receipt].timestamp)
          /\ verify_receipt_err(receipt, KeyOf(2), BATCH_KEY,
                                receipts[receipt].timestamp, a, secret) = "InvalidReceiptProof"

\* C30: the receipt create_receipt writes commits to salary_rate times the
\* seconds since last_claimed_at, the accrual of claim_salary, for every
\* number of seconds including none.
ReceiptAmountIsAccrual ==
    [][receipts' # receipts =>
          \E secret \in ReceiptSecrets :
              receipts'[employee.total_claimed].commitment =
                  hash(receipt_preimage(employee.wallet, BATCH_KEY, now,
                                        accrued, secret))]_vars

\* A step that creates a receipt creates the one numbered by the employee's
\* total_claimed, which did not exist, and rewrites no other; as only a
\* claim raises total_claimed, a second creation needs a claim in between.
ReceiptOncePerClaim ==
    [][receipts' # receipts =>
          /\ employee.total_claimed \notin DOMAIN receipts
          /\ DOMAIN receipts' = DOMAIN receipts \cup {employee.total_claimed}
          /\ \A r \in DOMAIN receipts : receipts'[r] = receipts[r]
          /\ (create_receipt_err(employee.wallet))' = "AccountAlreadyInUse"]_vars

\* C31: a receipt exists once for its payee, batch and sequence number, is
\* created only when the payee has claimed salary before (total_claimed,
\* which only a claim raises from 0, is positive), and a creation is
\* followed by no other creation until a claim.
ReceiptLifecycle ==
    /\ ReceiptOncePerClaim
    /\ [][receipts' # receipts => employee.total_claimed > 0]_vars

\* C32: on an existing receipt, verify_receipt_blind succeeds exactly when
\* the payee stored in the receipt is the payee given and fails with
\* ReceiptEmployeeMismatch otherwise; the result is the same for every
\* timestamp range, and the same for every receipt of that payee, whatever
\* amount and secret its commitment was made of.
BlindVerification ==
    \A receipt \in DOMAIN receipts, w \in Keys, range_start, range_end \in VerifyTimes :
        LET err == verify_receipt_blind_err(receipt, w, range_start, range_end) IN
        /\ err = "Ok" <=> receipts[receipt].employee = w
        /\ err # "Ok" => err = "ReceiptEmployeeMismatch"
        /\ \A s2, e2 \in VerifyTimes : verify_receipt_blind_err(receipt, w, s2, e2) = err
        /\ \A other \in DOMAIN receipts :
              receipts[other].employee = receipts[receipt].employee
                  => verify_receipt_blind_err(other, w, range_start, range_end) = err

\* A blind verification has succeeded while two receipts of the payee with
\* different commitments and times exist.
BlindVerificationWitness ==
    /\ last.op = "verify_receipt_blind"
    /\ \E r1, r2 \in DOMAIN receipts :
          /\ receipts[r1].commitment # receipts[r2].commitment
          /\ receipts[r1].timestamp < receipts[r2].timestamp
          /\ verify_receipt_blind_err(r1, KeyOf(1), 0, 0) = "Ok"
          /\ verify_receipt_blind_err(r2, KeyOf(2), 0, 0) = "ReceiptEmployeeMismatch"

\* ---------------------------------------------------------------- solvency
\* The sum of the amounts of the records of a map under the given keys.
RECURSIVE SumAmounts(_, _)
SumAmounts(records, keys) ==
    IF keys = {} THEN 0
    ELSE LET k == CHOOSE x \in keys : TRUE IN
         records[k].amount + SumAmounts(records, keys \ {k})

\* What the unspent commitment records and the unclaimed pending withdrawals
\* amount to, and the lamports in the churn vaults.
UnspentTotal ==
    SumAmounts(commitments, {c \in DOMAIN commitments : ~commitments[c].spent})
UnclaimedTotal ==
    SumAmounts(pending, {k \in DOMAIN pending : ~pending[k].claimed})
ChurnTotal ==
    LET RECURSIVE Held(_)
        Held(vaults) == IF vaults = {} THEN 0
                        ELSE LET i == CHOOSE x \in vaults : TRUE IN
                             churn_vault[i] + Held(vaults \ {i})
    IN  Held(DOMAIN churn_vault)

\* C33: in every state the pool vault and the churn vaults together hold at
\* least the sum of the amounts of the unspent commitment records.
CommitmentSolvency == pool_vault + ChurnTotal >= UnspentTotal

\* C34: in every state the unclaimed pending withdrawals together amount to
\* no more than the pool vault holds, so a ready, unclaimed record is never
\* refused for lack of lamports.
PendingBacked ==
    /\ UnclaimedTotal <= pool_vault
    /\ \A k \in DOMAIN pending :
          (~pending[k].claimed /\ now >= pending[k].available_at)
              => claim_withdraw_err(k) = "Ok"

\* ------------------------------------------------------- ledger consistency
\* The nullifiers in the preimages a commitment is the hash of (one at most,
\* the hash being injective; none for a value that is no hash).
NullifiersOf(c) ==
    {n \in Nullifiers :
        \E sh \in SecretHashes, a \in 0..U64_MAX : compute_commitment(sh, n, a) = c}

SpentRecords == {c \in DOMAIN commitments : commitments[c].spent}

\* The step is a successful private withdrawal, direct or relayed, against
\* the commitment record c.
WithdrawnAgainst(c) ==
    /\ nullifiers' # nullifiers
    /\ last'.op \in {"private_withdraw", "private_withdraw_relayed"}
    /\ Len(last'.moved) = 1
    /\ last'.moved[1][3] = <<"commitment", c>>

\* C35 (ledger consistency): a spent record has a nullifier record for the
\* nullifier of its preimage; there are as many nullifier records as spent
\* records; the spent flag of a record turns true in exactly the steps that
\* are successful private withdrawals against it, which create that nullifier
\* record, and never turns false, so that a record is spent iff such a
\* withdrawal was made; and a step deletes no commitment or nullifier record
\* and rewrites nothing of one but the spent flag.
LedgerConsistency ==
    /\ [](/\ \A c \in SpentRecords :
                NullifiersOf(c) # {} /\ NullifiersOf(c) \subseteq DOMAIN nullifiers
          /\ Cardinality(DOMAIN nullifiers) = Cardinality(SpentRecords))
    /\ [][(commitments' # commitments \/ nullifiers' # nullifiers) =>
          /\ \A c \in DOMAIN commitments :
                /\ c \in DOMAIN commitments'
                /\ commitments[c].spent => commitments'[c].spent
                /\ commitments'[c] = [commitments[c] EXCEPT !.spent = commitments'[c].spent]
                /\ (commitments'[c].spent /\ ~commitments[c].spent)
                      <=> WithdrawnAgainst(c)
                /\ WithdrawnAgainst(c)
                      => DOMAIN nullifiers' \ DOMAIN nullifiers = NullifiersOf(c)
          /\ \A n \in DOMAIN nullifiers :
                n \in DOMAIN nullifiers' /\ nullifiers'[n] = nullifiers[n]
          /\ nullifiers' # nullifiers => \E c \in DOMAIN commitments : WithdrawnAgainst(c)]_vars

\* Two commitment records, one spent by a relayed withdrawal just made, with
\* its nullifier record, and one unspent.
LedgerConsistencyWitness ==
    /\ last.op = "private_withdraw_relayed"
    /\ \E c1, c2 \in DOMAIN commitments :
          /\ commitments[c1].spent /\ ~commitments[c2].spent
          /\ NullifiersOf(c1) \subseteq DOMAIN nullifiers
          /\ NullifiersOf(c1) # {}

\* ---------------------------------------------------------- shared nullifier
\* The record c is unspent and another record, made with the same nullifier,
\* has been spent.
Blocked(c) ==
    /\ c \in DOMAIN commitments
    /\ ~commitments[c].spent
    /\ NullifiersOf(c) # {}
    /\ \E c1 \in SpentRecords : c1 # c /\ NullifiersOf(c1) = NullifiersOf(c)

\* C36 (shared nullifier): once one of two commitment records made with the
\* same nullifier and different secret hashes has been withdrawn, no
\* private_withdraw and no private_withdraw_relayed against the other
\* succeeds, whatever its arguments, and the other stays unspent and in that
\* condition in every later state.
SharedNullifierBlocks ==
    /\ [](\A c \in DOMAIN commitments :
             Blocked(c) =>
                \A n \in Nullifiers, sh \in SecretHashes, a \in LedgerAmounts,
                   ix0 \in LedgerIx0Inputs :
                   /\ private_withdraw_err(n, sh, a, c) # "Ok"
                   /\ private_withdraw_relayed_err(n, sh, a, c, ix0) # "Ok")
    /\ [][(commitments' # commitments \/ nullifiers' # nullifiers) =>
             \A c \in DOMAIN commitments : Blocked(c) => Blocked(c)']_vars

\* Two deposited records with one nullifier and different secret hashes, the
\* first withdrawn, and a withdrawal against the second, with its own
\* secret hash and amount and a vault that covers it, refused.
SharedNullifierBlocksWitness ==
    \E n \in Nullifiers, a \in ALLOWED_AMOUNTS :
        LET c1 == compute_commitment("sh1", n, a)
            c2 == compute_commitment("sh2", n, a) IN
        /\ c1 \in DOMAIN commitments /\ commitments[c1].spent
        /\ Blocked(c2)
        /\ commitments[c2].amount = a
        /\ pool_vault >= a
        /\ private_withdraw_err(n, "sh2", a, c2) = "AccountAlreadyInUse"

\* ------------------------------------------------------ inconsistent deposit
\* The record c was stored with an amount other than the one its commitment
\* was computed over.
Inconsistent(c) ==
    /\ c \in DOMAIN commitments
    /\ \E sh \in SecretHashes, n \in Nullifiers, a \in 0..U64_MAX :
          /\ c = compute_commitment(sh, n, a)
          /\ a # commitments[c].amount

\* C37 (deposit with inconsistent amount): a record stored with amount a
\* under a commitment H(sh || n || a') with a' # a is unspent in every state,
\* no private_withdraw, direct or relayed, succeeds against it whatever the
\* nullifier, secret hash and amount given, and no step is a withdrawal
\* against it.
InconsistentDepositStuck ==
    /\ [](\A c \in DOMAIN commitments :
             Inconsistent(c) =>
                /\ ~commitments[c].spent
                /\ \A n \in Nullifiers, sh \in SecretHashes, a \in 0..U64_MAX,
                      ix0 \in LedgerIx0Inputs :
                      /\ private_withdraw_err(n, sh, a, c) # "Ok"
                      /\ private_withdraw_relayed_err(n, sh, a, c, ix0) # "Ok")
    /\ [][nullifiers' # nullifiers =>
             \A c \in DOMAIN commitments : Inconsistent(c) => ~WithdrawnAgainst(c)]_vars

\* A record of 5 stored under the commitment over 1, in a funded pool where
\* its nullifier is unused: the withdrawal of 1 is refused for the amount,
\* the withdrawal of 5 for the proof.
InconsistentDepositStuckWitness ==
    \E sh \in SecretHashes, n \in Nullifiers :
        LET c == compute_commitment(sh, n, 1) IN
        /\ Inconsistent(c)
        /\ commitments[c].amount = 5
        /\ n \notin DOMAIN nullifiers
        /\ pool_vault >= 5
        /\ private_withdraw_err(n, sh, 1, c) = "InvalidAmount"
        /\ private_withdraw_err(n, sh, 5, c) = "InvalidCommitmentProof"

\* ------------------------------------------------- one request per recipient
\* C38 (one request per recipient): in every state request_withdraw for a
\* recipient who has a pending record fails, whatever the amount and whether
\* or not the record has been claimed; a step never deletes a record, and a
\* step that changes a record of an existing recipient is no
\* request_withdraw: it only sets claimed, and leaves amount and
\* available_at alone.  So one request at most succeeds for a recipient.
OneRequestPerRecipient ==
    /\ [](\A k \in DOMAIN pending, a \in AmountInputs :
             request_withdraw_err(k, a) = "AccountAlreadyInUse")
    /\ [][pending' # pending =>
             \A k \in DOMAIN pending :
                /\ k \in DOMAIN pending'
                /\ pending'[k] # pending[k] =>
                      /\ last'.op # "request_withdraw"
                      /\ pending'[k] = [pending[k] EXCEPT !.claimed = TRUE]]_vars

\* The recipient's record has been claimed, the pool vault still covers
\* another amount, and a new request of that amount is refused.
OneRequestPerRecipientWitness ==
    \E k \in DOMAIN pending :
        /\ pending[k].claimed
        /\ pending[k].amount = 1
        /\ pool_vault >= 5
        /\ request_withdraw_err(k, 5) = "AccountAlreadyInUse"

\* ------------------------------------------------------ batch and its funds
\* The running state of the batch before its pair i (counted from 1).
batch_before(remaining, i) == batch_result(SubSeq(remaining, 1, 2 * (i - 1)))

\* Pair i of the batch names a record and its recipient, unclaimed and past
\* its release time when the loop reaches it.
PairDue(remaining, i) ==
    LET st == batch_before(remaining, i)
        recipient_info == remaining[2 * i - 1]
        pending_info == remaining[2 * i] IN
    /\ data_len(st.pend, pending_info) >= PENDING_MIN_LEN
    /\ recipient_info.kind = "wallet"
    /\ recipient_info.key = st.pend[pending_info.key].recipient
    /\ ~st.pend[pending_info.key].claimed
    /\ now >= st.pend[pending_info.key].available_at

PairAmount(remaining, i) == pending[remaining[2 * i].key].amount

\* Inside the loop: the balance each pair is compared with is what the
\* earlier pairs of the batch left, a due pair is paid iff that balance covers
\* it, and the balance never goes below zero; so a due pair that is not
\* covered does not stop a later due pair that is covered.
BatchLoopNeverOverdraws ==
    \A b \in BatchInputs :
       batch_claim_err(b) = "Ok" =>
          \A i \in 1..(Len(b) \div 2) :
             LET st == batch_before(b, i)
                 after == batch_before(b, i + 1) IN
             /\ st.vault >= 0 /\ after.vault >= 0
             /\ st.vault = pool_vault - st.total_claimed
             /\ IF PairDue(b, i) /\ PairAmount(b, i) <= st.vault
                THEN /\ after.vault = st.vault - PairAmount(b, i)
                     /\ after.pend[b[2 * i].key].claimed
                ELSE after = st

\* C39 (batch never overdraws): in a batch_claim_withdraw the pool vault is
\* never overdrawn, and when a due pair is passed over because the balance
\* left does not cover it and a later due pair asks for no more than that
\* balance, the instruction succeeds and the later pair is paid.
BatchNeverOverdraws ==
    /\ BatchLoopNeverOverdraws
    /\ pool_vault >= 0
    /\ \A b \in BatchInputs :
          batch_claim_err(b) = "Ok" =>
             \A i, j \in 1..(Len(b) \div 2) :
                (/\ i < j
                 /\ PairDue(b, i) /\ PairAmount(b, i) > batch_before(b, i).vault
                 /\ PairDue(b, j) /\ PairAmount(b, j) <= batch_before(b, j).vault)
                    => batch_claim_withdraw_err(b) = "Ok"

\* A batch where a due pair is passed over for lack of funds and a later,
\* smaller one is covered.
BatchShortOfFunds ==
    \E b \in BatchInputs :
       /\ batch_claim_err(b) = "Ok"
       /\ \E i, j \in 1..(Len(b) \div 2) :
             /\ i < j
             /\ PairDue(b, i) /\ PairAmount(b, i) > batch_before(b, i).vault
             /\ PairDue(b, j) /\ PairAmount(b, j) <= batch_before(b, j).vault

====
